---- MODULE Spec2Model ----
(***************************************************************************)
(* A model of dfm_tools/observations.py: the catalog dispatch              *)
(* (ssh_catalog_subset), the per-provider catalog readers, the IOC         *)
(* de-duplication against UHSLC (ioc_ssh_read_catalog), the SSC station    *)
(* linkage (ssc_add_linked_stations), the retrieval dispatch               *)
(* (ssh_retrieve_data) and the per-provider retrieval adapters.            *)
(*                                                                         *)
(* Times are small naturals, coordinates are small naturals, NaT and None  *)
(* are the two negative sentinels below.  What a provider answers (its     *)
(* station list, its files, its samples) is chosen by the action that      *)
(* reads it.                                                               *)
(***************************************************************************)
EXTENDS Integers, Sequences, FiniteSets, TLC

VARIABLES
    op,              \* which public function this run calls
    pc,              \* position inside that function
    raised,          \* the exception that ended the run, or "none"
    \* ---- ssh_catalog_subset
    source,          \* the source argument ("None" is the default None)
    bbox,            \* <<lon_min, lat_min, lon_max, lat_max>>
    time_min,        \* the time_min argument (None or a time)
    time_max,        \* the time_max argument (None or a time)
    ssh_catalog_gpd, \* the catalog: a sequence of rows, in row order
    columns,         \* the column names of ssh_catalog_gpd
    clipped,         \* the catalog right after clip and sort_index
    before_time,     \* the catalog the time subsetting selects from
    invocations,     \* the sources ssh_catalog_subset was invoked with, in order
    calls,           \* the catalog readers called: [inv, reader]
    gettimes_calls,  \* stations psmsl_gnssir_ssh_read_catalog_gettimes fetched
    \* ---- ioc_ssh_read_catalog called on its own
    ioc_json,        \* the IOC station list the service answered
    ssc_json,        \* the SSC list the service answered
    drop,            \* the arguments drop_uhslc, drop_dart, drop_nonutc
    \* ---- ssc_add_linked_stations
    ssc_catalog_gpd, \* the SSC catalog, with the columns the function adds
    linked_dict,     \* the two linked catalogs: [ioc, uhslc]
    irow,            \* the number of SSC rows the loop has done
    \* ---- ssh_retrieve_data (its catalog and window are ssh_catalog_gpd,
    \*      time_min and time_max above)
    dir_output,      \* the output directory: [exists, files]
    written,         \* the names of the files written, in order
    provided,        \* what the provider answered to the last adapter call
    ds,              \* what the last adapter call returned
    adapter_calls,   \* the index labels the adapter was called for, in order
    nrow,            \* the number of catalog rows the loop has done
    \* ---- uhslc_ssh_retrieve_data called on its own (its window is
    \*      time_min and time_max above)
    include,         \* the arguments [rqds |-> include_rqds, fast |-> include_fast]
    ds_list,         \* the list the two ERDDAP requests append to
    requests,        \* the ERDDAP requests made, in order: [dataset_id, served]
    \* ---- gtsm3_era5_cds_ssh_retrieve_data called on its own (its window is
    \*      time_min and time_max above)
    time_freq,       \* the time_freq argument
    cache,           \* the files in dir_cache_gtsm
    iperiod,         \* the number of monthly periods the loop has done
    isfile_calls,    \* what os.path.isfile answered in the loop: [period, found]
    cds_requests,    \* the CDS requests issued, in order: [period, temporal_aggregation]
    zipped,          \* the files the zip of the current period holds
    opened           \* open_mfdataset: [called, files]

catVars == <<source, bbox, time_min, time_max, ssh_catalog_gpd, columns, clipped,
             before_time, invocations, calls, gettimes_calls>>

iocVars == <<ioc_json, ssc_json, drop>>

linkVars == <<ssc_catalog_gpd, linked_dict, irow>>

retVars == <<dir_output, written, provided, ds, adapter_calls, nrow>>

uhslcVars == <<include, ds_list, requests>>

gtsmVars == <<time_freq, cache, iperiod, isfile_calls, cds_requests, zipped, opened>>

vars == <<op, pc, raised, catVars, iocVars, linkVars, retVars, uhslcVars, gtsmVars>>

(* the variables a run of one function leaves alone *)
notCatVars == <<iocVars, linkVars, retVars, uhslcVars, gtsmVars>>

notLinkVars == <<catVars, iocVars, retVars, uhslcVars, gtsmVars>>

notRetVars == <<bbox, time_min, time_max, ssh_catalog_gpd, columns, clipped, before_time,
                invocations, calls, gettimes_calls, iocVars, linkVars, uhslcVars,
                gtsmVars>>

----------------------------------------------------------------------------
(* Bounds of the model *)

MaxStations == 2
MaxTime == 1
MaxCoord == 1

(* Sentinels *)
None == -1
NaT == -2

Times == 0..MaxTime
TimesOrNaT == Times \cup {NaT}
TimesOrNone == Times \cup {None}
Coords == 0..MaxCoord

(* pandas: any comparison with NaT is False *)
TimeLt(a, b) == a # NaT /\ b # NaT /\ a < b

----------------------------------------------------------------------------
(* Sequence helpers *)

Range(s) == {s[i] : i \in DOMAIN s}

RECURSIVE SelectRows(_, _)
SelectRows(s, keep) ==
    IF s = <<>> THEN <<>>
    ELSE IF Head(s) \in keep THEN <<Head(s)>> \o SelectRows(Tail(s), keep)
    ELSE SelectRows(Tail(s), keep)

(* all orderings of the rows of s *)
Orderings(s) ==
    {q \in [DOMAIN s -> Range(s)] :
        \A i \in DOMAIN s : \E j \in DOMAIN s : q[j] = s[i]}

(* all sequences of at most n distinct index labels out of 1..n *)
LabelSeqs(n) ==
    UNION {{q \in [1..k -> 1..n] : \A i, j \in 1..k : i # j => q[i] # q[j]}
           : k \in 0..n}

(* the station lists the model draws: at most n stations with distinct *)
(* index labels, in any order, one of them any station of S and the    *)
(* others the station dflt                                             *)
Listings(S, dflt, n) ==
    {<<>>} \cup
    {[i \in DOMAIN lab |-> (IF i = j THEN v ELSE dflt) @@ [idx |-> lab[i]]] :
        <<lab, j, v>> \in {t \in LabelSeqs(n) \X (1..n) \X S : t[2] <= Len(t[1])}}

----------------------------------------------------------------------------
(* The catalog readers.  raw is what the provider answers: raw.stations is *)
(* its station list in provider order, each with idx (the index label),    *)
(* x, y and, where the provider states a coverage, time_min and time_max   *)
(* (already through pd.to_datetime, so possibly NaT).                      *)

IdCols == {"geometry", "station_id", "station_name", "station_name_unique"}
TimeCols == {"time_min", "time_max", "time_ndays"}

(* rows without a temporal coverage: idx, x, y only *)
PlainRow(r) == [idx |-> r.idx, x |-> r.x, y |-> r.y]
TimedRow(r, t0, t1) ==
    [idx |-> r.idx, x |-> r.x, y |-> r.y, time_min |-> t0, time_max |-> t1]

PlainOf(r) == PlainRow(r)
TimedOf(r) == TimedRow(r, r.time_min, r.time_max)
SscOf(r) == [idx |-> r.idx, x |-> r.x, y |-> r.y, ioc |-> r.ioc, uhslc |-> r.uhslc]

ssc_ssh_read_catalog(raw) ==
    [raises |-> "none",
     columns |-> IdCols \cup {"country", "psmsl", "ioc", "ptwc", "gloss", "uhslc"},
     rows |-> [i \in DOMAIN raw.stations |-> SscOf(raw.stations[i])]]

(* only_coastal=True keeps the rows with gauge_type 'Coastal' *)
gesla3_ssh_read_catalog(raw, only_coastal) ==
    IF raw.missing_file
    THEN [raises |-> "FileNotFoundError", columns |-> {}, rows |-> <<>>]
    ELSE LET kept == SelectSeq(raw.stations,
                               LAMBDA r : only_coastal => r.gauge_type = "Coastal")
         IN [raises |-> "none",
             columns |-> IdCols \cup TimeCols \cup {"country", "file_name", "gauge_type"},
             rows |-> [i \in DOMAIN kept |-> TimedOf(kept[i])]]

(* file is what the index says of a station's file: "TG" a tide gauge    *)
(* history file with SLEV, "ANDRATX" the tide gauge whose position moves, *)
(* "other" a file outside history/TG or without SLEV                      *)
cmems_ssh_read_catalog(src, raw) ==
    LET kept == SelectSeq(raw.stations,
                          LAMBDA r : /\ r.file # "other"
                                     /\ (src = "cmems-nrt" => r.file # "ANDRATX"))
    IN [raises |-> "none",
        columns |-> IdCols \cup TimeCols \cup {"country", "file_name", "parameters"},
        rows |-> [i \in DOMAIN kept |-> TimedOf(kept[i])]]

cmems_my_ssh_read_catalog(raw) == cmems_ssh_read_catalog("cmems", raw)

cmems_nrt_ssh_read_catalog(raw) == cmems_ssh_read_catalog("cmems-nrt", raw)

uhslc_ssh_read_catalog(raw) ==
    [raises |-> "none",
     columns |-> IdCols \cup TimeCols \cup {"country"},
     rows |-> [i \in DOMAIN raw.stations |-> TimedOf(raw.stations[i])]]

psmsl_gnssir_ssh_read_catalog(raw) ==
    [raises |-> "none",
     columns |-> IdCols \cup {"country", "Code"},
     rows |-> [i \in DOMAIN raw.stations |-> PlainOf(raw.stations[i])]]

(* the default meta_dict keeps the locations that measure waterlevel    *)
(* (Grootheid.Code 'WATHTE'); the rows kept must share one EPSG code    *)
rwsddl_ssh_read_catalog(raw) ==
    LET selected == SelectSeq(raw.stations, LAMBDA r : r.grootheid = "WATHTE")
    IN IF raw.multiple_epsg
       THEN [raises |-> "ValueError", columns |-> {}, rows |-> <<>>]
       ELSE [raises |-> "none",
             columns |-> IdCols \cup {"country", "Code", "Naam", "Grootheid.Code"},
             rows |-> [i \in DOMAIN selected |-> PlainOf(selected[i])]]

GtsmOf(r) == TimedRow(r, 0, MaxTime)

(* the reader without the lines that set time_min and time_max *)
gtsm3_era5_cds_ssh_read_catalog_no_times(raw) ==
    [raises |-> "none",
     columns |-> IdCols \cup {"country"},
     rows |-> [i \in DOMAIN raw.stations |-> PlainOf(raw.stations[i])]]

(* every station gets the same fixed coverage, the whole period of the product *)
gtsm3_era5_cds_ssh_read_catalog(raw) ==
    [raises |-> "none",
     columns |-> IdCols \cup TimeCols \cup {"country"},
     rows |-> [i \in DOMAIN raw.stations |-> GtsmOf(raw.stations[i])]]

----------------------------------------------------------------------------
(* Spatial clip and index sort of ssh_catalog_subset *)

(* a point intersects the closed rectangle (lon_min, lat_min, lon_max, lat_max) *)
InBox(r, box) ==
    /\ box[1] <= r.x /\ r.x <= box[3]
    /\ box[2] <= r.y /\ r.y <= box[4]

RECURSIVE Clip(_, _)
Clip(s, box) ==
    IF s = <<>> THEN <<>>
    ELSE IF InBox(Head(s), box) THEN <<Head(s)>> \o Clip(Tail(s), box)
    ELSE Clip(Tail(s), box)

RECURSIVE InsertByIdx(_, _)
InsertByIdx(r, s) ==
    IF s = <<>> THEN <<r>>
    ELSE IF r.idx < Head(s).idx THEN <<r>> \o s
    ELSE <<Head(s)>> \o InsertByIdx(r, Tail(s))

(* the rows left in the order clip returned them *)
sort_index_skipped(s) == s

RECURSIVE sort_index(_)
sort_index(s) ==
    IF s = <<>> THEN <<>>
    ELSE InsertByIdx(Head(s), sort_index(Tail(s)))

(* ssh_catalog_gpd["source"] = source *)
WithSource(s, src) == [i \in DOMAIN s |-> [source |-> src] @@ s[i]]

(* the defaults lon -180..180, lat -90..90: the whole coordinate range *)
DefaultBox == <<0, 0, MaxCoord, MaxCoord>>

(* ssh_catalog_subset(source='ssc'), as ioc_ssh_read_catalog calls it *)
ssh_catalog_subset_ssc(raw_ssc) ==
    sort_index(Clip(WithSource(ssc_ssh_read_catalog(raw_ssc).rows, "ssc"), DefaultBox))

----------------------------------------------------------------------------
(* ioc_ssh_read_catalog.  An IOC station has Code (its index label),       *)
(* dart (Location starts with "DART ") and UTCOffset; an SSC row has the   *)
(* sets ioc and uhslc of linked ids.                                       *)

(* the SSC rows whose 'ioc' list holds ioc_code, in SSC row order *)
RECURSIVE iocstat_uhslcid(_, _)
iocstat_uhslcid(ssc_catalog_pd, ioc_code) ==
    IF ssc_catalog_pd = <<>> THEN <<>>
    ELSE IF ioc_code \in Head(ssc_catalog_pd).ioc
         THEN <<Head(ssc_catalog_pd).uhslc>> \o iocstat_uhslcid(Tail(ssc_catalog_pd), ioc_code)
         ELSE iocstat_uhslcid(Tail(ssc_catalog_pd), ioc_code)

inSSClist(ssc_catalog_pd, ioc_code) ==
    Len(iocstat_uhslcid(ssc_catalog_pd, ioc_code)) # 0

(* line 409: only the first matching SSC row is looked at *)
UHSLC(ssc_catalog_pd, ioc_code) ==
    /\ inSSClist(ssc_catalog_pd, ioc_code)
    /\ iocstat_uhslcid(ssc_catalog_pd, ioc_code)[1] # {}

IocOf(r) ==
    [idx |-> r.idx, x |-> r.x, y |-> r.y,
     time_min |-> r.time_min, time_max |-> r.time_max,
     dart |-> r.dart, UTCOffset |-> r.UTCOffset]

RECURSIVE IocFilter(_, _, _, _, _)
IocFilter(s, ssc_catalog_pd, drop_uhslc, drop_dart, drop_nonutc) ==
    IF s = <<>> THEN <<>>
    ELSE LET r == Head(s)
             rest == IocFilter(Tail(s), ssc_catalog_pd, drop_uhslc, drop_dart, drop_nonutc)
         IN IF \/ (drop_uhslc /\ UHSLC(ssc_catalog_pd, r.idx))
               \/ (drop_dart /\ r.dart)
               \/ (drop_nonutc /\ r.UTCOffset # 0)
            THEN rest
            ELSE <<r>> \o rest

ioc_ssh_read_catalog(raw, drop_uhslc, drop_dart, drop_nonutc) ==
    IF raw.http404
    THEN [raises |-> "Exception", columns |-> {}, rows |-> <<>>]
    ELSE [raises |-> "none",
          columns |-> IdCols \cup TimeCols
                      \cup {"country", "Code", "Location", "UTCOffset"}
                      \cup (IF drop_uhslc THEN {"UHSLC", "inSSClist"} ELSE {}),
          rows |-> IocFilter([i \in DOMAIN raw.stations |-> IocOf(raw.stations[i])],
                             IF drop_uhslc THEN ssh_catalog_subset_ssc([stations |-> raw.ssc]) ELSE <<>>,
                             drop_uhslc, drop_dart, drop_nonutc)]

----------------------------------------------------------------------------
(* ssh_catalog_subset *)

SourceNames == {"ssc", "gesla3", "ioc", "cmems", "cmems-nrt", "uhslc",
                "psmsl-gnssir", "rwsddl", "gtsm3-era5-cds"}

(* the dictionary with the cmems-nrt entry pointing at the cmems reader *)
ssh_sources_nrt_as_my ==
    ("ssc" :> "ssc_ssh_read_catalog")
    @@ ("gesla3" :> "gesla3_ssh_read_catalog")
    @@ ("ioc" :> "ioc_ssh_read_catalog")
    @@ ("cmems" :> "cmems_my_ssh_read_catalog")
    @@ ("cmems-nrt" :> "cmems_my_ssh_read_catalog")
    @@ ("uhslc" :> "uhslc_ssh_read_catalog")
    @@ ("psmsl-gnssir" :> "psmsl_gnssir_ssh_read_catalog")
    @@ ("rwsddl" :> "rwsddl_ssh_read_catalog")
    @@ ("gtsm3-era5-cds" :> "gtsm3_era5_cds_ssh_read_catalog")

(* the dictionary of lines 1069-1078: source name -> catalog reader *)
ssh_sources ==
    ("ssc" :> "ssc_ssh_read_catalog")
    @@ ("gesla3" :> "gesla3_ssh_read_catalog")
    @@ ("ioc" :> "ioc_ssh_read_catalog")
    @@ ("cmems" :> "cmems_my_ssh_read_catalog")
    @@ ("cmems-nrt" :> "cmems_nrt_ssh_read_catalog")
    @@ ("uhslc" :> "uhslc_ssh_read_catalog")
    @@ ("psmsl-gnssir" :> "psmsl_gnssir_ssh_read_catalog")
    @@ ("rwsddl" :> "rwsddl_ssh_read_catalog")
    @@ ("gtsm3-era5-cds" :> "gtsm3_era5_cds_ssh_read_catalog")

(* catalog_read_func called with no keyword arguments: every reader with its defaults *)
catalog_read_func(reader, raw) ==
    CASE reader = "ssc_ssh_read_catalog" -> ssc_ssh_read_catalog(raw)
      [] reader = "gesla3_ssh_read_catalog" -> gesla3_ssh_read_catalog(raw, TRUE)
      [] reader = "ioc_ssh_read_catalog" -> ioc_ssh_read_catalog(raw, TRUE, TRUE, TRUE)
      [] reader = "cmems_my_ssh_read_catalog" -> cmems_my_ssh_read_catalog(raw)
      [] reader = "cmems_nrt_ssh_read_catalog" -> cmems_nrt_ssh_read_catalog(raw)
      [] reader = "uhslc_ssh_read_catalog" -> uhslc_ssh_read_catalog(raw)
      [] reader = "psmsl_gnssir_ssh_read_catalog" -> psmsl_gnssir_ssh_read_catalog(raw)
      [] reader = "rwsddl_ssh_read_catalog" -> rwsddl_ssh_read_catalog(raw)
      [] reader = "gtsm3_era5_cds_ssh_read_catalog" -> gtsm3_era5_cds_ssh_read_catalog(raw)

(* the invocations of ssh_catalog_subset a reader makes itself: the IOC    *)
(* reader (drop_uhslc=True) calls ssh_catalog_subset(source='ssc') after   *)
(* it has fetched its own station list                                     *)
NestedInvocations(reader, raw) ==
    IF reader = "ioc_ssh_read_catalog" /\ ~raw.http404 THEN <<"ssc">> ELSE <<>>

(* What the providers can answer *)
PlainData == [x : Coords, y : Coords]

PlainDefault == [x |-> 0, y |-> 0]

(* a coverage: oldest <= latest unless one of them is missing *)
Coverage(r) ==
    (r.time_min # NaT /\ r.time_max # NaT) => r.time_min <= r.time_max

(* the stations the model draws: any coverage at the origin, or any place *)
(* with the coverage of the whole period                                  *)
Sampled(r) ==
    \/ (r.x = 0 /\ r.y = 0)
    \/ (r.time_min = 0 /\ r.time_max = MaxTime)

TimedData ==
    {r \in [x : Coords, y : Coords, time_min : TimesOrNaT, time_max : TimesOrNaT] :
        Coverage(r) /\ Sampled(r)}

TimedDefault == [x |-> 0, y |-> 0, time_min |-> 0, time_max |-> MaxTime]

SscDefault == [x |-> 0, y |-> 0, ioc |-> {}, uhslc |-> {}]

IocDefault == TimedDefault @@ [dart |-> FALSE, UTCOffset |-> 0]

(* the IOC stations of a run of ssh_catalog_subset: as the other timed  *)
(* stations, or a DART buoy, or a station with a local-time clock       *)
IocData ==
    {r @@ [dart |-> FALSE, UTCOffset |-> 0] : r \in TimedData}
    \cup {TimedDefault @@ [dart |-> TRUE, UTCOffset |-> 0],
          TimedDefault @@ [dart |-> FALSE, UTCOffset |-> 1]}

(* the GESLA3 stations: as the other timed stations, or a river gauge *)
GeslaData ==
    {r @@ [gauge_type |-> "Coastal"] : r \in TimedData}
    \cup {TimedDefault @@ [gauge_type |-> "River"]}

GeslaDefault == TimedDefault @@ [gauge_type |-> "Coastal"]

(* the CMEMS index rows: as the other timed stations, or no tide gauge *)
(* file, or the moving station                                         *)
CmemsData ==
    {r @@ [file |-> "TG"] : r \in TimedData}
    \cup {TimedDefault @@ [file |-> "other"], TimedDefault @@ [file |-> "ANDRATX"]}

CmemsDefault == TimedDefault @@ [file |-> "TG"]

(* the DDL locations: waterlevel locations, or one of another quantity *)
RwsData ==
    {r @@ [grootheid |-> "WATHTE"] : r \in PlainData}
    \cup {PlainDefault @@ [grootheid |-> "STROOMSHD"]}

RwsDefault == PlainDefault @@ [grootheid |-> "WATHTE"]

(* the SSC lists the IOC reader gets in a run of ssh_catalog_subset: no *)
(* row, or one row that links IOC station 1, with or without a UHSLC id *)
IocSscLists ==
    {<<>>,
     <<[idx |-> 1, x |-> 0, y |-> 0, ioc |-> {1}, uhslc |-> {}]>>,
     <<[idx |-> 1, x |-> 0, y |-> 0, ioc |-> {1}, uhslc |-> {1}]>>}

ReaderInputs(src) ==
    CASE src = "ssc" -> [stations : Listings({r @@ [ioc |-> {}, uhslc |-> {}] : r \in PlainData},
                                             SscDefault, MaxStations)]
      [] src = "gesla3" ->
           [stations : Listings(GeslaData, GeslaDefault, MaxStations),
            missing_file : {FALSE}]
           \cup {[stations |-> <<>>, missing_file |-> TRUE]}
      [] src = "ioc" ->
           [stations : Listings(IocData, IocDefault, MaxStations),
            ssc : IocSscLists, http404 : {FALSE}]
           \cup {[stations |-> <<>>, ssc |-> <<>>, http404 |-> TRUE]}
      [] src \in {"cmems", "cmems-nrt"} ->
           [stations : Listings(CmemsData, CmemsDefault, MaxStations)]
      [] src = "uhslc" ->
           [stations : Listings(TimedData, TimedDefault, MaxStations)]
      [] src = "psmsl-gnssir" ->
           [stations : Listings(PlainData, PlainDefault, MaxStations)]
      [] src = "rwsddl" ->
           [stations : Listings(RwsData, RwsDefault, MaxStations),
            multiple_epsg : {FALSE}]
           \cup {[stations |-> <<>>, multiple_epsg |-> TRUE]}
      [] src = "gtsm3-era5-cds" ->
           [stations : Listings(PlainData, PlainDefault, MaxStations)]

Boxes ==
    {b \in Coords \X Coords \X Coords \X Coords : b[1] <= b[3] /\ b[2] <= b[4]}

(* the state of the functions that are not called in a run *)
IdleCat ==
    /\ source = "None" /\ bbox = DefaultBox /\ time_min = None /\ time_max = None
    /\ ssh_catalog_gpd = <<>> /\ columns = {} /\ clipped = <<>> /\ before_time = <<>>
    /\ invocations = <<>> /\ calls = <<>> /\ gettimes_calls = 0

IdleIoc ==
    /\ ioc_json = <<>> /\ ssc_json = <<>>
    /\ drop = [uhslc |-> TRUE, dart |-> TRUE, nonutc |-> TRUE]

IdleLink ==
    /\ ssc_catalog_gpd = <<>>
    /\ linked_dict = [ioc |-> <<>>, uhslc |-> <<>>]
    /\ irow = 0

IdleRet ==
    /\ dir_output = [exists |-> FALSE, files |-> {}]
    /\ written = <<>>
    /\ provided = <<>>
    /\ ds = [kind |-> "nocall"]
    /\ adapter_calls = <<>>
    /\ nrow = 0

IdleUhslc ==
    /\ include = [rqds |-> TRUE, fast |-> TRUE]
    /\ ds_list = <<>>
    /\ requests = <<>>

IdleGtsm ==
    /\ time_freq = "10_min"
    /\ cache = {}
    /\ iperiod = 0
    /\ isfile_calls = <<>>
    /\ cds_requests = <<>>
    /\ zipped = {}
    /\ opened = [called |-> FALSE, files |-> {}]

(* the requests the model draws: any window with the default box, or any *)
(* box with no window or with the window of the whole period             *)
Requested(box, tmin, tmax) ==
    \/ box = DefaultBox
    \/ (tmin = None /\ tmax = None)
    \/ (tmin = 0 /\ tmax = MaxTime)

(* lines 1069-1086: the dispatch, the reader call and the source column *)
ssh_catalog_subset_read ==
    /\ op = "ssh_catalog_subset" /\ pc = "read"
    /\ IF source \notin DOMAIN ssh_sources
       THEN /\ raised' = "ValueError"
            /\ pc' = "raised"
            /\ invocations' = Append(invocations, source)
            /\ UNCHANGED <<ssh_catalog_gpd, columns, calls>>
       ELSE \E raw \in ReaderInputs(source) :
              LET reader == ssh_sources[source]
                  nested == NestedInvocations(reader, raw)
                  got == catalog_read_func(reader, raw)
              IN /\ invocations' = Append(invocations, source) \o nested
                 /\ calls' = calls
                        \o <<[inv |-> Len(invocations) + 1, reader |-> reader]>>
                        \o [i \in DOMAIN nested |->
                              [inv |-> Len(invocations) + 1 + i,
                               reader |-> ssh_sources[nested[i]]]]
                 /\ IF got.raises # "none"
                    THEN /\ raised' = got.raises
                         /\ pc' = "raised"
                         /\ UNCHANGED <<ssh_catalog_gpd, columns>>
                    ELSE /\ ssh_catalog_gpd' = WithSource(got.rows, source)
                         /\ columns' = got.columns \cup {"source"}
                         /\ pc' = "clip"
                         /\ UNCHANGED raised
    /\ UNCHANGED <<op, source, bbox, time_min, time_max, clipped, before_time,
                   gettimes_calls>>
    /\ UNCHANGED notCatVars

(* lines 1088-1090: clip returns the kept rows in no particular order, *)
(* sort_index puts them in index order again                           *)
ssh_catalog_subset_clip ==
    /\ op = "ssh_catalog_subset" /\ pc = "clip"
    /\ \E q \in Orderings(Clip(ssh_catalog_gpd, bbox)) :
          /\ ssh_catalog_gpd' = sort_index(q)
          /\ clipped' = sort_index(q)
    /\ pc' = "time"
    /\ UNCHANGED <<op, raised, source, bbox, time_min, time_max, columns,
                   before_time, invocations, calls, gettimes_calls>>
    /\ UNCHANGED notCatVars

(* psmsl_gnssir_ssh_read_catalog_gettimes: daily[i] is the first and last *)
(* time of the daily csv of row i                                         *)
psmsl_gnssir_ssh_read_catalog_gettimes(station_list_gpd, daily) ==
    [i \in DOMAIN station_list_gpd |->
        station_list_gpd[i] @@ [time_min |-> daily[i][1], time_max |-> daily[i][2]]]

DailySpans == {d \in Times \X Times : d[1] <= d[2]}

(* the overlap test with <= and >= in place of < and > *)
intime_bool_closed(row, tmin, tmax) ==
    /\ row.time_min # NaT /\ row.time_max # NaT
    /\ row.time_min <= tmax /\ row.time_max >= tmin

(* lines 1097-1100 *)
intime_bool(row, tmin, tmax) ==
    TimeLt(row.time_min, tmax) /\ TimeLt(tmin, row.time_max)

RECURSIVE TimeSelect(_, _, _)
TimeSelect(s, tmin, tmax) ==
    IF s = <<>> THEN <<>>
    ELSE IF intime_bool(Head(s), tmin, tmax)
         THEN <<Head(s)>> \o TimeSelect(Tail(s), tmin, tmax)
         ELSE TimeSelect(Tail(s), tmin, tmax)

(* the test that takes one given time for a request to subset *)
TimeSubsetting_any(tmin, tmax) == tmin # None \/ tmax # None

(* line 1092: None not in [time_min, time_max] *)
TimeSubsetting(tmin, tmax) == None \notin {tmin, tmax}

(* lines 1092-1101 *)
ssh_catalog_subset_time ==
    /\ op = "ssh_catalog_subset" /\ pc = "time"
    /\ IF ~TimeSubsetting(time_min, time_max)
       THEN /\ pc' = "done"
            /\ UNCHANGED <<raised, ssh_catalog_gpd, columns, before_time, gettimes_calls>>
       ELSE \E daily \in (IF source = "psmsl-gnssir"
                            THEN [DOMAIN ssh_catalog_gpd -> DailySpans]
                            ELSE {<<>>}) :
              LET fetch == source = "psmsl-gnssir"
                  cat == IF fetch
                         THEN psmsl_gnssir_ssh_read_catalog_gettimes(ssh_catalog_gpd, daily)
                         ELSE ssh_catalog_gpd
                  cols == IF fetch
                          THEN columns \cup {"time_min", "time_max"}
                               \cup (IF ssh_catalog_gpd # <<>> THEN {"time_ndays"} ELSE {})
                          ELSE columns
              IN /\ gettimes_calls' = IF fetch THEN gettimes_calls + Len(ssh_catalog_gpd)
                                      ELSE gettimes_calls
                 /\ columns' = cols
                 /\ IF "time_min" \notin cols
                    THEN /\ raised' = "KeyError"
                         /\ pc' = "raised"
                         /\ UNCHANGED <<ssh_catalog_gpd, before_time>>
                    ELSE /\ before_time' = cat
                         /\ ssh_catalog_gpd' = TimeSelect(cat, time_min, time_max)
                         /\ pc' = "done"
                         /\ UNCHANGED raised
    /\ UNCHANGED <<op, source, bbox, time_min, time_max, clipped, invocations, calls>>
    /\ UNCHANGED notCatVars

Init ==
    /\ op = "ssh_catalog_subset"
    /\ pc = "read"
    /\ raised = "none"
    /\ source \in SourceNames \cup {"None", "hydroweb"}
    /\ bbox \in Boxes
    /\ time_min \in TimesOrNone
    /\ time_max \in TimesOrNone
    /\ ssh_catalog_gpd = <<>>
    /\ columns = {}
    /\ clipped = <<>>
    /\ before_time = <<>>
    /\ invocations = <<>>
    /\ calls = <<>>
    /\ gettimes_calls = 0
    /\ Requested(bbox, time_min, time_max)
    /\ IdleIoc
    /\ IdleLink
    /\ IdleRet
    /\ IdleUhslc
    /\ IdleGtsm

Next ==
    \/ ssh_catalog_subset_read
    \/ ssh_catalog_subset_clip
    \/ ssh_catalog_subset_time

Spec == Init /\ [][Next]_vars

----------------------------------------------------------------------------
(* ioc_ssh_read_catalog called on its own *)

MaxSsc == 2

(* all sequences of at most n rows over S with pairwise distinct idx *)
FullListings(S, n) ==
    UNION {{q \in [1..k -> S] : \A i, j \in 1..k : i # j => q[i].idx # q[j].idx}
           : k \in 0..n}

(* IOC stations, told apart by Code, Location and UTCOffset only *)
IocCodes ==
    {TimedDefault @@ [idx |-> c, dart |-> d, UTCOffset |-> u] :
        <<c, d, u>> \in (1..MaxStations) \X BOOLEAN \X {0, 1}}

(* SSC rows: the IOC codes and the UHSLC ids each row lists *)
SscLinks ==
    [idx : 1..MaxSsc, x : {0}, y : {0}, ioc : SUBSET (1..MaxStations), uhslc : SUBSET {1}]

ioc_ssh_read_catalog_call ==
    /\ op = "ioc_ssh_read_catalog" /\ pc = "call"
    /\ \E stations \in FullListings(IocCodes, MaxStations),
          ssc \in FullListings(SscLinks, MaxSsc), http404 \in BOOLEAN :
          LET raw == IF http404
                     THEN [stations |-> <<>>, ssc |-> <<>>, http404 |-> TRUE]
                     ELSE [stations |-> stations, ssc |-> ssc, http404 |-> FALSE]
              got == ioc_ssh_read_catalog(raw, drop.uhslc, drop.dart, drop.nonutc)
          IN /\ ioc_json' = raw.stations
             /\ ssc_json' = raw.ssc
             /\ raised' = got.raises
             /\ pc' = IF got.raises = "none" THEN "done" ELSE "raised"
             /\ ssh_catalog_gpd' = got.rows
    /\ UNCHANGED <<op, drop>>
    /\ UNCHANGED <<source, bbox, time_min, time_max, columns, clipped, before_time,
                   invocations, calls, gettimes_calls, linkVars, retVars, uhslcVars,
                   gtsmVars>>

InitIoc ==
    /\ op = "ioc_ssh_read_catalog"
    /\ pc = "call"
    /\ raised = "none"
    /\ IdleCat
    /\ ioc_json = <<>>
    /\ ssc_json = <<>>
    /\ drop \in [uhslc : BOOLEAN, dart : BOOLEAN, nonutc : BOOLEAN]
    /\ IdleLink
    /\ IdleRet
    /\ IdleUhslc
    /\ IdleGtsm

NextIoc == ioc_ssh_read_catalog_call

SpecIoc == InitIoc /\ [][NextIoc]_vars

(* C10: with the defaults, the catalog ioc_ssh_read_catalog returns has no *)
(* station whose code is in the 'ioc' list of any SSC row with a non-empty *)
(* 'uhslc' list, no DART station and no station with UTCOffset other than  *)
(* 0; a UTC station that is no DART buoy and whose code no SSC row lists   *)
(* is returned.                                                            *)
C10_DropsUhslcDartNonUtc ==
    (op = "ioc_ssh_read_catalog" /\ pc = "done"
        /\ drop = [uhslc |-> TRUE, dart |-> TRUE, nonutc |-> TRUE]) =>
        /\ \A i \in DOMAIN ssh_catalog_gpd :
              /\ ~\E k \in DOMAIN ssc_json :
                    /\ ssh_catalog_gpd[i].idx \in ssc_json[k].ioc
                    /\ ssc_json[k].uhslc # {}
              /\ ~ssh_catalog_gpd[i].dart
              /\ ssh_catalog_gpd[i].UTCOffset = 0
        /\ \A j \in DOMAIN ioc_json :
              (/\ ~\E k \in DOMAIN ssc_json : ioc_json[j].idx \in ssc_json[k].ioc
               /\ ~ioc_json[j].dart
               /\ ioc_json[j].UTCOffset = 0)
              => \E i \in DOMAIN ssh_catalog_gpd : ssh_catalog_gpd[i].idx = ioc_json[j].idx

----------------------------------------------------------------------------
(* ssc_add_linked_stations.  Station ids are strings; the distance the    *)
(* code takes the square root of is kept squared (dist2), which orders    *)
(* the distances alike.                                                   *)

(* str.lower() on the ids of the model *)
Lower(id) == CASE id = "ABAS" -> "abas" [] OTHER -> id

(* _lon_360_to_180: (lon + 180) % 360 - 180 *)
lon_360_to_180(lon) == ((lon + 180) % 360) - 180

(* _uhslc_get_json, index as str: the geojson gives longitudes in 0..360 *)
uhslc_get_json(geojson) ==
    [i \in DOMAIN geojson |->
        [Code |-> geojson[i].Code, x |-> lon_360_to_180(geojson[i].x), y |-> geojson[i].y]]

RECURSIVE drop_duplicates(_)
drop_duplicates(s) ==
    IF s = <<>> THEN <<>>
    ELSE LET init == drop_duplicates(SubSeq(s, 1, Len(s) - 1))
             last == s[Len(s)]
         IN IF \E i \in DOMAIN init : init[i] = last THEN init ELSE Append(init, last)

(* _ioc_get_json(showall="all"), duplicates of Code and geometry dropped, *)
(* index in lowercase                                                     *)
ioc_get_json_lower(json) ==
    LET uniq == drop_duplicates(json)
    IN [i \in DOMAIN uniq |->
          [Code |-> Lower(uniq[i].Code), x |-> uniq[i].x, y |-> uniq[i].y]]

(* a lookup that takes the first station of the catalog, whatever its id *)
loc_first(linked_gpd, linked_id) ==
    IF linked_gpd = <<>> THEN <<>> ELSE <<linked_gpd[1]>>

(* linked_gpd.loc[linked_id]: the rows with that index label *)
loc(linked_gpd, linked_id) ==
    SelectSeq(linked_gpd, LAMBDA r : r.Code = linked_id)

dist2(x1, y1, x2, y2) == (x2 - x1) * (x2 - x1) + (y2 - y1) * (y2 - y1)

(* the ids of one SSC row, in lowercase, with the catalog they point into *)
LinkedIds(row) ==
    {<<"IOC", Lower(id)>> : id \in row.ioc} \cup {<<"UHSLC", Lower(id)>> : id \in row.uhslc}

LinkedGpd(linked, key) == IF key[1] = "IOC" THEN linked.ioc ELSE linked.uhslc

(* lines 192-203: station_check_dict, key -> <<x2, y2, dist2>> *)
station_check_dict(row, linked) ==
    [key \in LinkedIds(row) |->
        LET geom == loc(LinkedGpd(linked, key), key[2])[1]
        IN <<geom.x, geom.y, dist2(row.x, row.y, geom.x, geom.y)>>]

SetMin(S) == CHOOSE m \in S : \A n \in S : m <= n

(* the smallest element in the place of the largest *)
SetMax_smallest(S) == CHOOSE m \in S : \A n \in S : m <= n

SetMax(S) == CHOOSE m \in S : \A n \in S : m >= n

(* What the services answer in a run of ssc_add_linked_stations *)

(* the SSC rows: any place, any of the IOC ids (one of them in capitals), *)
(* the UHSLC id or none                                                   *)
LinkSscData ==
    [x : Coords, y : Coords, ioc : SUBSET {"abas", "ABAS", "pkem"}, uhslc : SUBSET {"7"}]

LinkSscDefault == [x |-> 0, y |-> 0, ioc |-> {"abas"}, uhslc |-> {}]

(* the IOC list: each of the two stations is absent or lies on the x axis; *)
(* the first may be spelled in capitals                                    *)
LinkIocJsons ==
    {a \o b : <<a, b>> \in
        ({<<>>} \cup {<<[Code |-> c, x |-> x, y |-> 0]>> : <<c, x>> \in {"abas", "ABAS"} \X Coords})
        \X ({<<>>} \cup {<<[Code |-> "pkem", x |-> x, y |-> 0]>> : x \in Coords})}

(* the UHSLC list: station 7 is absent, or lies east or west of Greenwich *)
LinkUhslcJsons ==
    {<<>>} \cup {<<[Code |-> "7", x |-> lon, y |-> 0]>> : lon \in {0, 359}}

(* lines 174-187: the two linked catalogs are fetched *)
ssc_add_linked_stations_get ==
    /\ op = "ssc_add_linked_stations" /\ pc = "get"
    /\ \E ioc_json_all \in LinkIocJsons, uhslc_geojson \in LinkUhslcJsons :
          linked_dict' = [ioc |-> ioc_get_json_lower(ioc_json_all),
                          uhslc |-> uhslc_get_json(uhslc_geojson)]
    /\ pc' = "rows"
    /\ UNCHANGED <<op, raised, ssc_catalog_gpd, irow>>
    /\ UNCHANGED notLinkVars

(* lines 188-209: one SSC row *)
ssc_add_linked_stations_row ==
    /\ op = "ssc_add_linked_stations" /\ pc = "rows"
    /\ irow < Len(ssc_catalog_gpd)
    /\ LET row == ssc_catalog_gpd[irow + 1]
           missing == \E key \in LinkedIds(row) :
                         loc(LinkedGpd(linked_dict, key), key[2]) = <<>>
       IN IF missing
          THEN /\ raised' = "KeyError"
               /\ pc' = "raised"
               /\ UNCHANGED <<ssc_catalog_gpd, irow>>
          ELSE LET dict == station_check_dict(row, linked_dict)
                   dist_all == {dict[key][3] : key \in DOMAIN dict}
               IN /\ ssc_catalog_gpd' =
                        IF LinkedIds(row) # {}
                        THEN [ssc_catalog_gpd EXCEPT ![irow + 1] =
                                 row @@ [dist_dict |-> dict,
                                         dist_min |-> SetMin(dist_all),
                                         dist_max |-> SetMax(dist_all)]]
                        ELSE ssc_catalog_gpd
                  /\ irow' = irow + 1
                  /\ UNCHANGED <<raised, pc>>
    /\ UNCHANGED <<op, linked_dict>>
    /\ UNCHANGED notLinkVars

(* line 210 *)
ssc_add_linked_stations_return ==
    /\ op = "ssc_add_linked_stations" /\ pc = "rows"
    /\ irow = Len(ssc_catalog_gpd)
    /\ pc' = "done"
    /\ UNCHANGED <<op, raised, linkVars>>
    /\ UNCHANGED notLinkVars

InitLink ==
    /\ op = "ssc_add_linked_stations"
    /\ pc = "get"
    /\ raised = "none"
    /\ IdleCat
    /\ IdleIoc
    /\ IdleRet
    /\ IdleUhslc
    /\ IdleGtsm
    /\ ssc_catalog_gpd \in Listings(LinkSscData, LinkSscDefault, MaxStations)
    /\ linked_dict = [ioc |-> <<>>, uhslc |-> <<>>]
    /\ irow = 0

NextLink ==
    \/ ssc_add_linked_stations_get
    \/ ssc_add_linked_stations_row
    \/ ssc_add_linked_stations_return

SpecLink == InitLink /\ [][NextLink]_vars

----------------------------------------------------------------------------
(* ssh_retrieve_data and the retrieval adapters.  A dataset is a record    *)
(* [kind, dims, data_vars, units, attrs, coords, data]: units is the units *)
(* attribute of the waterlevel variable, data the rows along time.         *)

NaN == -3

NoData == [kind |-> "None"]

Raises(exc) == [kind |-> "raise", exc |-> exc]

Dataset(data_vars, units, attrs, data) ==
    [kind |-> "ds", dims |-> {"time"}, data_vars |-> data_vars, units |-> units,
     attrs |-> attrs, coords |-> <<>>, data |-> data]

(* ds.sel(time=slice(time_min, time_max)): both ends inclusive, None open *)
sel_time(data, tmin, tmax) ==
    SelectSeq(data, LAMBDA r : /\ (tmin = None \/ r.time >= tmin)
                               /\ (tmax = None \/ r.time <= tmax))

(* rows whose time occurred earlier in the sequence are dropped *)
RECURSIVE keep_first(_)
keep_first(data) ==
    IF data = <<>> THEN <<>>
    ELSE LET init == keep_first(SubSeq(data, 1, Len(data) - 1))
             last == data[Len(data)]
         IN IF \E i \in DOMAIN init : init[i].time = last.time THEN init
            ELSE Append(init, last)

(* rows whose time occurs later in the sequence are dropped *)
RECURSIVE keep_last(_)
keep_last(data) ==
    IF data = <<>> THEN <<>>
    ELSE IF \E j \in DOMAIN Tail(data) : Tail(data)[j].time = Head(data).time
         THEN keep_last(Tail(data))
         ELSE <<Head(data)>> \o keep_last(Tail(data))

RECURSIVE InsertByTime(_, _)
InsertByTime(r, s) ==
    IF s = <<>> THEN <<r>>
    ELSE IF r.time < s[1].time THEN <<r>> \o s
    ELSE <<s[1]>> \o InsertByTime(r, Tail(s))

(* sortby('time'), stable *)
RECURSIVE sortby_time(_)
sortby_time(data) ==
    IF data = <<>> THEN <<>>
    ELSE InsertByTime(data[Len(data)], sortby_time(SubSeq(data, 1, Len(data) - 1)))

(* a value where its flag is 1, missing elsewhere: lines 651 and 847 *)
where_any(value, flag) == value

where_good(value, flag) == IF flag = 1 THEN value ELSE NaN

(* lines 813-848 *)
gesla3_ssh_retrieve_data(row, tmin, tmax, file) ==
    IF ~file.found THEN Raises("FileNotFoundError")
    ELSE LET data == keep_first(file.rows)
             renamed == [i \in DOMAIN data |->
                            [time |-> data[i].time, waterlevel |-> data[i].sea_level,
                             qc_flag |-> data[i].qc_flag, use_flag |-> data[i].use_flag]]
             sliced == sel_time(renamed, tmin, tmax)
             filtered == [i \in DOMAIN sliced |->
                            [time |-> sliced[i].time,
                             waterlevel |-> where_good(sliced[i].waterlevel, sliced[i].qc_flag),
                             qc_flag |-> where_good(sliced[i].qc_flag, sliced[i].qc_flag),
                             use_flag |-> where_good(sliced[i].use_flag, sliced[i].qc_flag)]]
         IN IF sliced = <<>> THEN NoData
            ELSE Dataset({"waterlevel", "qc_flag", "use_flag"}, "m", <<>>, filtered)

(* max over a non-empty sequence of numbers *)
SeqMax(s) == CHOOSE m \in Range(s) : \A n \in Range(s) : m >= n

(* lines 603-664; a file with a DEPTH dimension is reduced with max over it, *)
(* variable by variable                                                     *)
cmems_ssh_retrieve_data(row, tmin, tmax, file) ==
    LET reduced == [i \in DOMAIN file.data |->
                      LET r == file.data[i]
                      IN IF file.depth
                         THEN [time |-> r.time, SLEV |-> SeqMax(r.SLEV), SLEV_QC |-> SeqMax(r.SLEV_QC)]
                         ELSE [time |-> r.time, SLEV |-> r.SLEV[1], SLEV_QC |-> r.SLEV_QC[1]]]
        filtered == [i \in DOMAIN reduced |->
                       [time |-> reduced[i].time,
                        waterlevel |-> where_good(reduced[i].SLEV, reduced[i].SLEV_QC)]]
        sliced == sel_time(filtered, tmin, tmax)
    IN IF sliced = <<>> THEN NoData
       ELSE Dataset({"waterlevel"}, file.units, file.attrs, sliced)

(* pd.period_range(time_min, time_max, freq="1M"), one time step a month *)
period_range(tmin, tmax) == [i \in 1..(IF tmax >= tmin THEN tmax - tmin + 1 ELSE 0) |-> tmin + i - 1]

RECURSIVE Concat(_)
Concat(ss) == IF ss = <<>> THEN <<>> ELSE ss[1] \o Concat(Tail(ss))

(* lines 851-902; service[m] is what the service answers for month m *)
ioc_ssh_retrieve_data(row, tmin, tmax, service) ==
    IF tmin = None \/ tmax = None THEN Raises("ValueError")
    ELSE LET months == period_range(tmin, tmax)
             resp == [i \in DOMAIN months |-> service[months[i]]]
         IN IF \E i \in DOMAIN resp : resp[i].status \in {"404", "error"}
            THEN Raises("Exception")
            ELSE LET nonempty == SelectSeq(resp, LAMBDA x : x.json # <<>>)
                     results_list == [i \in DOMAIN nonempty |-> nonempty[i].json]
                     data_pd_all == [i \in DOMAIN Concat(results_list) |->
                                        [time |-> Concat(results_list)[i].stime,
                                         waterlevel |-> Concat(results_list)[i].slevel]]
                 IN IF results_list = <<>> THEN NoData
                    ELSE Dataset({"waterlevel"}, "m", <<>>, keep_last(data_pd_all))

(* lines 667-713: the attributes and variables _preprocess_uhslc_erddap    *)
(* keeps, sea_level from millimeters to meters                             *)
preprocess_uhslc_erddap(resp) ==
    IF resp.units # "millimeters" THEN Raises("AssertionError")
    ELSE Dataset({"waterlevel"}, "m", <<>>,
                 [i \in DOMAIN resp.data |->
                     [time |-> resp.data[i].time,
                      waterlevel |-> resp.data[i].sea_level \div 1000]])

(* line 748: the HTTPError the except clause does not raise again *)
code_404_in_str_any(err) == TRUE

code_404_in_str(err) == err.code = "404"

(* lines 716-749: what one ERDDAP request appends to ds_list; resp is what *)
(* e.to_xarray() gives: the server applies the time constraints of lines   *)
(* 760-767 and answers 404 when no row is left                             *)
uhslc_ssh_retrieve_data_oneds(served, tmin, tmax) ==
    LET rows == sel_time(served.data, tmin, tmax)
        resp == IF served.status # "200" THEN [kind |-> "HTTPError", code |-> served.status]
                ELSE IF rows = <<>> THEN [kind |-> "HTTPError", code |-> "404"]
                ELSE [kind |-> "nc", code |-> "200"]
    IN IF resp.kind = "HTTPError"
       THEN IF code_404_in_str(resp) THEN [kind |-> "appended", ds_list |-> <<>>]
            ELSE Raises("HTTPError")
       ELSE LET pre == preprocess_uhslc_erddap([units |-> served.units, data |-> rows])
            IN IF pre.kind = "raise" THEN pre ELSE [kind |-> "appended", ds_list |-> <<pre>>]

(* lines 781-794: xr.concat, drop_duplicates(keep='first'), sortby('time') *)
uhslc_concat_keep_last(list) ==
    Dataset({"waterlevel"}, "m", <<>>,
            sortby_time(keep_last(Concat([i \in DOMAIN list |-> list[i].data]))))

uhslc_concat(list) ==
    Dataset({"waterlevel"}, "m", <<>>,
            sortby_time(keep_first(Concat([i \in DOMAIN list |-> list[i].data]))))

(* lines 752-795 with include_rqds and include_fast left at True *)
uhslc_ssh_retrieve_data(row, tmin, tmax, server) ==
    LET rqds == uhslc_ssh_retrieve_data_oneds(server.rqds, tmin, tmax)
        fast == uhslc_ssh_retrieve_data_oneds(server.fast, tmin, tmax)
    IN IF rqds.kind = "raise" THEN rqds
       ELSE IF fast.kind = "raise" THEN fast
       ELSE IF rqds.ds_list \o fast.ds_list = <<>> THEN NoData
       ELSE uhslc_concat(rqds.ds_list \o fast.ds_list)

(* lines 905-929 *)
psmsl_gnssir_ssh_retrieve_data(row, tmin, tmax, site) ==
    LET data == [i \in DOMAIN site.csv |->
                    [time |-> site.csv[i].time,
                     adjusted_height |-> site.csv[i].adjusted_height,
                     waterlevel |-> site.csv[i].adjusted_height
                                       - site.ellipsoidalHeight + site.reflectorHeight]]
        sliced == sel_time(data, tmin, tmax)
    IN IF sliced = <<>> THEN NoData
       ELSE Dataset({"waterlevel", "adjusted_height"}, "m", <<>>, sliced)

(* lines 943-949 *)
status_dict(v) ==
    CASE v = "Ongecontroleerd" -> "O"
      [] v = "Gecontroleerd" -> "G"
      [] v = "Definitief" -> "D"
      [] OTHER -> v

(* lines 932-981; ddlpy.measurements answers the measurements in the period *)
rwsddl_ssh_retrieve_data(row, tmin, tmax, ddl) ==
    IF tmin = None \/ tmax = None THEN Raises("ValueError")
    ELSE LET measurements == sel_time(ddl.data, tmin, tmax)
         IN IF measurements = <<>> THEN NoData
            ELSE IF ddl.eenheid # "cm" THEN Raises("Exception")
            ELSE Dataset({"waterlevel", "qc", "status"}, "m", <<>>,
                         [i \in DOMAIN measurements |->
                             [time |-> measurements[i].time,
                              waterlevel |-> measurements[i].Meetwaarde \div 100,
                              qc |-> measurements[i].Kwaliteitswaardecode,
                              status |-> status_dict(measurements[i].Statuswaarde)]])

(* lines 984-1057; the downloaded files hold the waterlevel variable of   *)
(* the station with its units                                              *)
gtsm3_era5_cds_ssh_retrieve_data(row, tmin, tmax, files) ==
    LET t0 == IF tmin = None THEN row.time_min ELSE tmin
        t1 == IF tmax = None THEN row.time_max ELSE tmax
    IN Dataset({"waterlevel"}, files.units, files.attrs, sel_time(files.data, t0, t1))

(* lines 1115-1123: the adapter of a source, applied to what its provider *)
(* answers                                                                *)
retrieve_data_func(src, row, tmin, tmax, answer) ==
    CASE src = "gesla3" -> gesla3_ssh_retrieve_data(row, tmin, tmax, answer)
      [] src = "ioc" -> ioc_ssh_retrieve_data(row, tmin, tmax, answer)
      [] src \in {"cmems", "cmems-nrt"} -> cmems_ssh_retrieve_data(row, tmin, tmax, answer)
      [] src = "uhslc" -> uhslc_ssh_retrieve_data(row, tmin, tmax, answer)
      [] src = "psmsl-gnssir" -> psmsl_gnssir_ssh_retrieve_data(row, tmin, tmax, answer)
      [] src = "rwsddl" -> rwsddl_ssh_retrieve_data(row, tmin, tmax, answer)
      [] src = "gtsm3-era5-cds" -> gtsm3_era5_cds_ssh_retrieve_data(row, tmin, tmax, answer)

RetrieveSources ==
    {"gesla3", "ioc", "cmems", "cmems-nrt", "uhslc", "psmsl-gnssir", "rwsddl", "gtsm3-era5-cds"}

(* What the providers answer to one adapter call *)

GeslaFiles ==
    {[found |-> FALSE, rows |-> <<>>]}
    \cup {[found |-> TRUE, rows |-> rows] : rows \in
        {<<[time |-> 0, sea_level |-> 1, qc_flag |-> 1, use_flag |-> 1]>>,
         <<[time |-> 0, sea_level |-> 1, qc_flag |-> 3, use_flag |-> 0]>>,
         <<[time |-> 0, sea_level |-> 1, qc_flag |-> 1, use_flag |-> 1],
           [time |-> 1, sea_level |-> 2, qc_flag |-> 4, use_flag |-> 0]>>,
         <<[time |-> 0, sea_level |-> 1, qc_flag |-> 1, use_flag |-> 1],
           [time |-> 0, sea_level |-> 2, qc_flag |-> 1, use_flag |-> 1]>>}}

CmemsAttrs == [source |-> "tide gauge station", platform_code |-> "P1"]

CmemsFiles(src) ==
    {[units |-> "m", depth |-> FALSE, attrs |-> CmemsAttrs,
      data |-> <<[time |-> 0, SLEV |-> <<1>>, SLEV_QC |-> <<1>>]>>],
     [units |-> "cm", depth |-> FALSE, attrs |-> CmemsAttrs,
      data |-> <<[time |-> 0, SLEV |-> <<1>>, SLEV_QC |-> <<1>>]>>],
     [units |-> "m", depth |-> FALSE, attrs |-> CmemsAttrs,
      data |-> <<[time |-> 0, SLEV |-> <<1>>, SLEV_QC |-> <<4>>],
                 [time |-> 1, SLEV |-> <<2>>, SLEV_QC |-> <<1>>]>>]}
    \cup IF src = "cmems-nrt"
         THEN {[units |-> "m", depth |-> TRUE, attrs |-> CmemsAttrs,
                data |-> <<[time |-> 0, SLEV |-> <<1>>, SLEV_QC |-> <<1>>],
                           [time |-> 1, SLEV |-> <<2>>, SLEV_QC |-> <<3>>]>>],
               [units |-> "m", depth |-> TRUE, attrs |-> CmemsAttrs,
                data |-> <<[time |-> 0, SLEV |-> <<2, 1>>, SLEV_QC |-> <<0, 1>>]>>]}
         ELSE {}

(* the IOC service per month: no data in any month; an error answer in    *)
(* month 0; one record in some month; two records of one time in month 0  *)
IocResponse(status, json) == [status |-> status, json |-> json]

IocServices ==
    {[m \in Times |-> IocResponse("200", <<>>)]}
    \cup {[m \in Times |-> IF m = 0 THEN IocResponse(e, <<>>) ELSE IocResponse("200", <<>>)] :
              e \in {"404", "error"}}
    \cup {[m \in Times |-> IF m = t THEN IocResponse("200", <<[stime |-> t, slevel |-> 1]>>)
                                     ELSE IocResponse("200", <<>>)] : t \in Times}
    \cup {[m \in Times |-> IF m = 0 THEN IocResponse("200", <<[stime |-> 0, slevel |-> 1],
                                                              [stime |-> 0, slevel |-> 2]>>)
                                     ELSE IocResponse("200", <<>>)]}

UhslcServed(data) == [status |-> "200", units |-> "millimeters", data |-> data]

UhslcOutage == [status |-> "503", units |-> "millimeters", data |-> <<>>]

UhslcServers ==
    {[rqds |-> UhslcServed(<<>>), fast |-> UhslcServed(<<>>)],
     [rqds |-> UhslcServed(<<[time |-> 0, sea_level |-> 1000]>>), fast |-> UhslcServed(<<>>)],
     [rqds |-> UhslcServed(<<[time |-> 1, sea_level |-> 1000]>>),
      fast |-> UhslcServed(<<[time |-> 0, sea_level |-> 2000], [time |-> 1, sea_level |-> 2000]>>)],
     [rqds |-> UhslcOutage, fast |-> UhslcServed(<<>>)],
     [rqds |-> UhslcServed(<<>>), fast |-> UhslcOutage],
     [rqds |-> [status |-> "200", units |-> "m", data |-> <<[time |-> 0, sea_level |-> 1]>>],
      fast |-> UhslcServed(<<>>)]}

PsmslSites ==
    {[csv |-> csv, ellipsoidalHeight |-> 2, reflectorHeight |-> 1] :
        csv \in {<<>>,
                 <<[time |-> 0, adjusted_height |-> 3]>>,
                 <<[time |-> 0, adjusted_height |-> 3], [time |-> 1, adjusted_height |-> 4]>>}}

RwsMeasurement(t, v, qc, status) ==
    [time |-> t, Meetwaarde |-> v, Kwaliteitswaardecode |-> qc, Statuswaarde |-> status]

RwsDdl ==
    {[eenheid |-> "cm", data |-> <<>>],
     [eenheid |-> "cm", data |-> <<RwsMeasurement(0, 100, "00", "Gecontroleerd")>>],
     [eenheid |-> "cm", data |-> <<RwsMeasurement(0, 100, "00", "Definitief"),
                                   RwsMeasurement(1, 200, "99", "Ongecontroleerd")>>],
     [eenheid |-> "mm", data |-> <<RwsMeasurement(0, 1000, "00", "Gecontroleerd")>>]}

GtsmAttrs == [source |-> "GTSMv3", title |-> "reanalysis"]

GtsmFiles ==
    {[units |-> "m", attrs |-> GtsmAttrs, data |-> <<>>],
     [units |-> "m", attrs |-> GtsmAttrs, data |-> <<[time |-> 0, waterlevel |-> 1]>>],
     [units |-> "m", attrs |-> GtsmAttrs,
      data |-> <<[time |-> 0, waterlevel |-> 1], [time |-> 1, waterlevel |-> 2]>>],
     [units |-> "cm", attrs |-> GtsmAttrs, data |-> <<[time |-> 0, waterlevel |-> 1]>>]}

ProviderAnswers(src) ==
    CASE src = "gesla3" -> GeslaFiles
      [] src = "ioc" -> IocServices
      [] src \in {"cmems", "cmems-nrt"} -> CmemsFiles(src)
      [] src = "uhslc" -> UhslcServers
      [] src = "psmsl-gnssir" -> PsmslSites
      [] src = "rwsddl" -> RwsDdl
      [] src = "gtsm3-era5-cds" -> GtsmFiles

(* The catalogs ssh_retrieve_data is called with: rows of three stations *)
StationTable ==
    <<[station_name |-> "stat1", station_id |-> "id1", station_name_unique |-> "u1",
       x |-> 0, y |-> 0, country |-> "NLD"],
      [station_name |-> "stat2", station_id |-> "id2", station_name_unique |-> "u2",
       x |-> MaxCoord, y |-> 0, country |-> "BEL"],
      [station_name |-> "stat3", station_id |-> "id3", station_name_unique |-> "u3",
       x |-> 0, y |-> MaxCoord, country |-> "NLD"]>>

RetrieveRow(i, src) ==
    [idx |-> i, source |-> src, time_min |-> 0, time_max |-> MaxTime] @@ StationTable[i]

(* the rows of one source: up to MaxStations distinct stations, any order *)
RetrieveCatalogsOf(src) ==
    LET lens == {n \in 1..MaxStations : n <= Len(StationTable)}
        picks == UNION {{f \in [1..n -> DOMAIN StationTable] :
                            \A i, j \in 1..n : i # j => f[i] # f[j]} : n \in lens}
    IN {[k \in DOMAIN f |-> RetrieveRow(f[k], src)] : f \in picks}

(* ddlpy.locations() has one row per location and kind of measurement: *)
(* two rows of one location pass the selection of lines 538-543, and   *)
(* lines 565-568 make Code the id and the unique name of both          *)
RwsddlSameCode ==
    [i \in 1..2 |->
        [idx |-> i, source |-> "rwsddl", time_min |-> 0, time_max |-> MaxTime,
         station_name |-> "Hoek van Holland", station_name_unique |-> "HOEKVHLD",
         station_id |-> "HOEKVHLD", x |-> 0, y |-> 0, country |-> "NLD"]]

RetrieveCatalogs ==
    {<<>>}
    \cup UNION {RetrieveCatalogsOf(src) : src \in RetrieveSources \cup {"ssc"}}
    \cup {RwsddlSameCode}
    \cup {<<RetrieveRow(1, "gesla3"), RetrieveRow(2, "ioc")>>,
          <<RetrieveRow(1, "ssc"), RetrieveRow(2, "uhslc")>>}

RetrieveWindows ==
    {<<None, None>>, <<0, None>>, <<None, 0>>, <<0, MaxTime>>, <<MaxTime, MaxTime>>,
     <<MaxTime, 0>>}

(* lines 1107-1126: the exception the checks raise, or "none" *)
retrieve_checks_one_source(catalog) ==
    IF catalog = <<>> THEN "ValueError"
    ELSE IF catalog[1].source \notin RetrieveSources THEN "ValueError"
    ELSE "none"

retrieve_checks(catalog) ==
    IF catalog = <<>> THEN "ValueError"
    ELSE IF Cardinality({catalog[i].source : i \in DOMAIN catalog}) > 1 THEN "Exception"
    ELSE IF catalog[1].source \notin RetrieveSources THEN "ValueError"
    ELSE "none"

(* lines 1107-1129: the checks, then os.makedirs *)
ssh_retrieve_data_check ==
    /\ op = "ssh_retrieve_data" /\ pc = "check"
    /\ IF retrieve_checks(ssh_catalog_gpd) # "none"
       THEN /\ raised' = retrieve_checks(ssh_catalog_gpd)
            /\ pc' = "raised"
            /\ UNCHANGED <<source, dir_output>>
       ELSE /\ source' = ssh_catalog_gpd[1].source
            /\ dir_output' = [dir_output EXCEPT !.exists = TRUE]
            /\ pc' = "loop"
            /\ UNCHANGED raised
    /\ UNCHANGED <<op, written, provided, ds, adapter_calls, nrow>>
    /\ UNCHANGED notRetVars

(* attributes the dataset already has are kept *)
assign_attrs_setdefault(attrs, row) ==
    attrs @@ [station_name |-> row.station_name,
              station_id |-> row.station_id,
              station_name_unique |-> row.station_name_unique,
              longitude |-> row.x,
              latitude |-> row.y,
              country |-> row.country,
              source |-> row.source]

(* lines 1142-1148 *)
assign_attrs(attrs, row) ==
    [station_name |-> row.station_name,
     station_id |-> row.station_id,
     station_name_unique |-> row.station_name_unique,
     longitude |-> row.x,
     latitude |-> row.y,
     country |-> row.country,
     source |-> row.source] @@ attrs

(* the assertions without the one on the units *)
hydrotools_asserts_no_units(d) ==
    /\ "time" \in d.dims
    /\ "waterlevel" \in d.data_vars

(* lines 39-63: the assertions *)
hydrotools_asserts(d) ==
    /\ "time" \in d.dims
    /\ "waterlevel" \in d.data_vars
    /\ d.units # "none"
    /\ d.units = "m"

(* lines 1150 and 54-63: waterlevel as float32, the station coordinates *)
make_hydrotools_consistent(d) ==
    [d EXCEPT !.coords = [station_name |-> d.attrs.station_name,
                          station_id |-> d.attrs.station_id,
                          station_x_coordinate |-> d.attrs.longitude,
                          station_y_coordinate |-> d.attrs.latitude]]
        @@ [dtype |-> "float32"]

(* nothing is written *)
to_netcdf_nothing(files, file_out, d) == files

(* ds.to_netcdf(file_out): a file of that name is replaced *)
to_netcdf(files, file_out, d) ==
    {f \in files : f.name # file_out} \cup {[name |-> file_out, ds |-> d]}

(* lines 1133-1158: one catalog row *)
ssh_retrieve_data_row ==
    /\ op = "ssh_retrieve_data" /\ pc = "loop"
    /\ nrow < Len(ssh_catalog_gpd)
    /\ \E answer \in ProviderAnswers(source) :
          LET row == ssh_catalog_gpd[nrow + 1]
              got == retrieve_data_func(source, row, time_min, time_max, answer)
          IN /\ adapter_calls' = Append(adapter_calls, row.idx)
             /\ provided' = answer
             /\ ds' = got
             /\ IF got.kind = "raise"
                THEN /\ raised' = got.exc /\ pc' = "raised"
                     /\ UNCHANGED <<dir_output, written, nrow>>
                ELSE IF got.kind = "None"
                THEN /\ nrow' = nrow + 1
                     /\ UNCHANGED <<raised, pc, dir_output, written>>
                ELSE LET with_attrs == [got EXCEPT !.attrs = assign_attrs(got.attrs, row)]
                         stat_name == with_attrs.attrs.station_name_unique
                         file_out == <<stat_name, ".nc">>
                     IN IF ~hydrotools_asserts(with_attrs)
                        THEN /\ raised' = "AssertionError" /\ pc' = "raised"
                             /\ UNCHANGED <<dir_output, written, nrow>>
                        ELSE /\ dir_output' =
                                   [dir_output EXCEPT !.files =
                                       to_netcdf(@, file_out,
                                                 make_hydrotools_consistent(with_attrs))]
                             /\ written' = Append(written, file_out)
                             /\ nrow' = nrow + 1
                             /\ UNCHANGED <<raised, pc>>
    /\ UNCHANGED <<op, source>>
    /\ UNCHANGED notRetVars

(* line 1159: the loop is over *)
ssh_retrieve_data_return ==
    /\ op = "ssh_retrieve_data" /\ pc = "loop"
    /\ nrow = Len(ssh_catalog_gpd)
    /\ pc' = "done"
    /\ UNCHANGED <<op, raised, source, retVars>>
    /\ UNCHANGED notRetVars

InitRetrieve ==
    /\ op = "ssh_retrieve_data"
    /\ pc = "check"
    /\ raised = "none"
    /\ source = "None"
    /\ bbox = DefaultBox
    /\ ssh_catalog_gpd \in RetrieveCatalogs
    /\ \E w \in RetrieveWindows : time_min = w[1] /\ time_max = w[2]
    /\ columns = {} /\ clipped = <<>> /\ before_time = <<>>
    /\ invocations = <<>> /\ calls = <<>> /\ gettimes_calls = 0
    /\ IdleIoc
    /\ IdleLink
    /\ IdleRet
    /\ IdleUhslc
    /\ IdleGtsm

NextRetrieve ==
    \/ ssh_retrieve_data_check
    \/ ssh_retrieve_data_row
    \/ ssh_retrieve_data_return

SpecRetrieve == InitRetrieve /\ [][NextRetrieve]_vars

-----------------------------------------------------------------------------
(* uhslc_ssh_retrieve_data called on its own, one ERDDAP request per step  *)

(* what the server answers to one request: up to MaxTime + 1 rows in any   *)
(* order, all with the same sea_level, in millimeters; a row in another    *)
(* unit; or an HTTP error status                                           *)
UhslcResponses ==
    {UhslcServed([i \in DOMAIN ts |-> [time |-> ts[i], sea_level |-> v]]) :
        ts \in UNION {[1..n -> Times] : n \in 0..(MaxTime + 1)}, v \in {1000, 2000}}
    \cup {[status |-> "200", units |-> "m", data |-> <<[time |-> 0, sea_level |-> 1]>>]}
    \cup {[status |-> code, units |-> "millimeters", data |-> <<>>] :
            code \in {"404", "503", "504"}}

(* lines 769-775: the request for global_hourly_rqds, then the one for     *)
(* global_hourly_fast, each made by _uhslc_ssh_retrieve_data_oneds (lines  *)
(* 716-749) when its include argument is set                               *)
uhslc_ssh_retrieve_data_request ==
    /\ op = "uhslc_ssh_retrieve_data"
    /\ pc \in {"rqds", "fast"}
    /\ LET next == IF pc = "rqds" THEN "fast" ELSE "concat"
           dataset_id == IF pc = "rqds" THEN "global_hourly_rqds" ELSE "global_hourly_fast"
       IN IF include[pc]
          THEN \E served \in UhslcResponses :
                  LET out == uhslc_ssh_retrieve_data_oneds(served, time_min, time_max)
                  IN /\ requests' = Append(requests,
                                           [dataset_id |-> dataset_id, served |-> served])
                     /\ IF out.kind = "raise"
                        THEN /\ raised' = out.exc
                             /\ pc' = "raised"
                             /\ ds_list' = ds_list
                        ELSE /\ raised' = raised
                             /\ pc' = next
                             /\ ds_list' = ds_list \o out.ds_list
          ELSE pc' = next /\ UNCHANGED <<raised, ds_list, requests>>
    /\ UNCHANGED <<op, catVars, iocVars, linkVars, retVars, include, gtsmVars>>

(* lines 777-795 *)
uhslc_ssh_retrieve_data_return ==
    /\ op = "uhslc_ssh_retrieve_data"
    /\ pc = "concat"
    /\ ds' = IF Len(ds_list) = 0 THEN NoData ELSE uhslc_concat(ds_list)
    /\ pc' = "done"
    /\ UNCHANGED <<op, raised, catVars, iocVars, linkVars, dir_output, written, provided,
                   adapter_calls, nrow, uhslcVars, gtsmVars>>

InitUhslc ==
    /\ op = "uhslc_ssh_retrieve_data"
    /\ pc = "rqds"
    /\ raised = "none"
    /\ \E w \in RetrieveWindows : time_min = w[1] /\ time_max = w[2]
    /\ include \in [rqds : BOOLEAN, fast : BOOLEAN]
    /\ ds_list = <<>>
    /\ requests = <<>>
    /\ source = "None"
    /\ bbox = DefaultBox
    /\ ssh_catalog_gpd = <<>>
    /\ columns = {} /\ clipped = <<>> /\ before_time = <<>>
    /\ invocations = <<>> /\ calls = <<>> /\ gettimes_calls = 0
    /\ IdleIoc
    /\ IdleLink
    /\ IdleRet
    /\ IdleGtsm

NextUhslc ==
    \/ uhslc_ssh_retrieve_data_request
    \/ uhslc_ssh_retrieve_data_return

SpecUhslc == InitUhslc /\ [][NextUhslc]_vars

-----------------------------------------------------------------------------
(* gtsm3_era5_cds_ssh_retrieve_data called on its own, one step per month  *)
(* found in the cache, per CDS request, per extraction and per removal.    *)
(* One time step is one month.                                             *)

(* line 1007: time_freq.replace("_","") *)
time_freq_cds_str(freq) == IF freq = "10_min" THEN "10min" ELSE freq

(* lines 1008-1010, 1014: the file of one period in dir_cache_gtsm *)
filename(freq, period) == [kind |-> "nc", freq |-> time_freq_cds_str(freq), period |-> period]

(* line 1019 *)
tmp_zipfile(freq, period) == [kind |-> "zip", freq |-> time_freq_cds_str(freq), period |-> period]

(* lines 1008-1010, 1047: the files of the directory that match file_pat *)
file_pat(freq, files) == {f \in files : f.kind = "nc" /\ f.freq = time_freq_cds_str(freq)}

(* line 1015: os.path.isfile *)
isfile_never(files, f) == FALSE

isfile(files, f) == f \in files

(* the catalog row of lines 594-598: every station covers the whole period *)
GtsmRow == [station_id |-> 0, time_min |-> 0, time_max |-> MaxTime]

(* lines 995-998, 1005 *)
time_periods ==
    period_range(IF time_min = None THEN GtsmRow.time_min ELSE time_min,
                 IF time_max = None THEN GtsmRow.time_max ELSE time_max)

(* lines 1013-1016: a period whose file is in the cache is skipped *)
gtsm_period_cached ==
    /\ op = "gtsm3_era5_cds_ssh_retrieve_data"
    /\ pc = "period"
    /\ iperiod < Len(time_periods)
    /\ isfile(cache, filename(time_freq, time_periods[iperiod + 1]))
    /\ isfile_calls' = Append(isfile_calls, [period |-> time_periods[iperiod + 1], found |-> TRUE])
    /\ iperiod' = iperiod + 1
    /\ UNCHANGED <<op, pc, raised, catVars, iocVars, linkVars, retVars, uhslcVars,
                   time_freq, cache, cds_requests, zipped, opened>>

(* lines 1013-1040: a period whose file is not in the cache: the check of  *)
(* time_freq, then the CDS request, which fails or writes tmp_zipfile; the *)
(* zip holds the file of the period, under the name the loop looks for or  *)
(* under another name                                                      *)
gtsm_period_retrieve ==
    /\ op = "gtsm3_era5_cds_ssh_retrieve_data"
    /\ pc = "period"
    /\ iperiod < Len(time_periods)
    /\ ~isfile(cache, filename(time_freq, time_periods[iperiod + 1]))
    /\ isfile_calls' = Append(isfile_calls, [period |-> time_periods[iperiod + 1], found |-> FALSE])
    /\ IF time_freq \notin {"10_min", "hourly"}
       THEN /\ raised' = "ValueError"
            /\ pc' = "raised"
            /\ UNCHANGED <<cache, cds_requests, zipped>>
       ELSE /\ cds_requests' = Append(cds_requests,
                                      [period |-> time_periods[iperiod + 1],
                                       temporal_aggregation |-> time_freq])
            /\ \/ /\ \E name \in {"nc", "other"} :
                        zipped' = {[kind |-> name, freq |-> time_freq_cds_str(time_freq),
                                    period |-> time_periods[iperiod + 1]]}
                  /\ cache' = cache \cup {tmp_zipfile(time_freq, time_periods[iperiod + 1])}
                  /\ pc' = "extractall"
                  /\ raised' = raised
               \/ /\ raised' = "Exception"
                  /\ pc' = "raised"
                  /\ UNCHANGED <<cache, zipped>>
    /\ UNCHANGED <<op, catVars, iocVars, linkVars, retVars, uhslcVars, time_freq, iperiod,
                   opened>>

(* lines 1042-1043 *)
gtsm_extractall ==
    /\ op = "gtsm3_era5_cds_ssh_retrieve_data"
    /\ pc = "extractall"
    /\ cache' = cache \cup zipped
    /\ pc' = "remove"
    /\ UNCHANGED <<op, raised, catVars, iocVars, linkVars, retVars, uhslcVars, time_freq,
                   iperiod, isfile_calls, cds_requests, zipped, opened>>

(* line 1044, and the loop goes to the next period *)
gtsm_remove ==
    /\ op = "gtsm3_era5_cds_ssh_retrieve_data"
    /\ pc = "remove"
    /\ cache' = cache \ {tmp_zipfile(time_freq, time_periods[iperiod + 1])}
    /\ zipped' = {}
    /\ iperiod' = iperiod + 1
    /\ pc' = "period"
    /\ UNCHANGED <<op, raised, catVars, iocVars, linkVars, retVars, uhslcVars, time_freq,
                   isfile_calls, cds_requests, opened>>

(* lines 1046-1057: open_mfdataset on the files that match file_pat (an    *)
(* OSError when there is none), the time slice and the station            *)
gtsm_open ==
    /\ op = "gtsm3_era5_cds_ssh_retrieve_data"
    /\ pc = "period"
    /\ iperiod = Len(time_periods)
    /\ opened' = [called |-> TRUE, files |-> file_pat(time_freq, cache)]
    /\ IF file_pat(time_freq, cache) = {}
       THEN /\ raised' = "OSError"
            /\ pc' = "raised"
            /\ ds' = ds
       ELSE /\ raised' = raised
            /\ pc' = "done"
            /\ \E files \in GtsmFiles :
                  ds' = gtsm3_era5_cds_ssh_retrieve_data(GtsmRow, time_min, time_max, files)
    /\ UNCHANGED <<op, catVars, iocVars, linkVars, dir_output, written, provided,
                   adapter_calls, nrow, uhslcVars, time_freq, cache, iperiod, isfile_calls,
                   cds_requests, zipped>>

InitGtsm ==
    /\ op = "gtsm3_era5_cds_ssh_retrieve_data"
    /\ pc = "period"
    /\ raised = "none"
    /\ \E w \in RetrieveWindows : time_min = w[1] /\ time_max = w[2]
    /\ time_freq \in {"10_min", "hourly", "daily"}
    /\ cache \in SUBSET {filename(freq, period) :
                            freq \in {"10_min", "hourly", "daily"}, period \in Times}
    /\ iperiod = 0
    /\ isfile_calls = <<>>
    /\ cds_requests = <<>>
    /\ zipped = {}
    /\ opened = [called |-> FALSE, files |-> {}]
    /\ source = "None"
    /\ bbox = DefaultBox
    /\ ssh_catalog_gpd = <<>>
    /\ columns = {} /\ clipped = <<>> /\ before_time = <<>>
    /\ invocations = <<>> /\ calls = <<>> /\ gettimes_calls = 0
    /\ IdleIoc
    /\ IdleLink
    /\ IdleRet
    /\ IdleUhslc

NextGtsm ==
    \/ gtsm_period_cached
    \/ gtsm_period_retrieve
    \/ gtsm_extractall
    \/ gtsm_remove
    \/ gtsm_open

SpecGtsm == InitGtsm /\ [][NextGtsm]_vars

----------------------------------------------------------------------------
(* Properties of ssh_catalog_subset *)

(* the readers, one per source name, as the claim names them *)
C1_Reader(src) ==
    CASE src = "ssc" -> "ssc_ssh_read_catalog"
      [] src = "gesla3" -> "gesla3_ssh_read_catalog"
      [] src = "ioc" -> "ioc_ssh_read_catalog"
      [] src = "cmems" -> "cmems_my_ssh_read_catalog"
      [] src = "cmems-nrt" -> "cmems_nrt_ssh_read_catalog"
      [] src = "uhslc" -> "uhslc_ssh_read_catalog"
      [] src = "psmsl-gnssir" -> "psmsl_gnssir_ssh_read_catalog"
      [] src = "rwsddl" -> "rwsddl_ssh_read_catalog"
      [] src = "gtsm3-era5-cds" -> "gtsm3_era5_cds_ssh_read_catalog"

C1_Nine == {"ssc", "gesla3", "ioc", "cmems", "cmems-nrt", "uhslc",
            "psmsl-gnssir", "rwsddl", "gtsm3-era5-cds"}

C1_CallsOf(i) == SelectSeq(calls, LAMBDA c : c.inv = i)

(* C1: every invocation of ssh_catalog_subset (the run's own and the one  *)
(* the IOC reader makes) with one of the nine source names has called     *)
(* exactly the reader of that name, once; an invocation with any other    *)
(* source, the default None included, has called no reader and the run    *)
(* has ended with ValueError.                                             *)
C1_DispatchExactlyOneReader ==
    /\ pc # "read" => (Len(invocations) >= 1 /\ invocations[1] = source)
    /\ \A i \in DOMAIN invocations :
          IF invocations[i] \in C1_Nine
          THEN C1_CallsOf(i) = <<[inv |-> i, reader |-> C1_Reader(invocations[i])]>>
          ELSE /\ C1_CallsOf(i) = <<>>
               /\ raised = "ValueError"
               /\ pc = "raised"
    /\ \A k \in DOMAIN calls : calls[k].inv \in DOMAIN invocations
    /\ (pc # "read" /\ source \notin C1_Nine) =>
          (raised = "ValueError" /\ calls = <<>> /\ ssh_catalog_gpd = <<>>)
    /\ (raised = "ValueError" /\ source \in C1_Nine) => source = "rwsddl"

(* a run for cmems-nrt that has come to its end with stations *)
C1_Witness ==
    /\ pc = "done" /\ source = "cmems-nrt" /\ ssh_catalog_gpd # <<>>
    /\ calls = <<[inv |-> 1, reader |-> "cmems_nrt_ssh_read_catalog"]>>

C6_HasTimes == {"time_min", "time_max"} \subseteq columns

C6_RowsHaveColumns ==
    \A i \in DOMAIN ssh_catalog_gpd :
        /\ {"idx", "x", "y", "source"} \subseteq DOMAIN ssh_catalog_gpd[i]
        /\ C6_HasTimes <=> {"time_min", "time_max"} \subseteq DOMAIN ssh_catalog_gpd[i]

(* C6 as stated: every returned catalog has location, ids and time_min and *)
(* time_max, whatever the source and the time arguments.                   *)
C6_Original ==
    (pc = "done" /\ source \in C1_Nine) =>
        /\ IdCols \subseteq columns
        /\ C6_HasTimes

(* C6 amended: every returned catalog has the geometry and the three id    *)
(* columns; it has time_min and time_max for gesla3, ioc, cmems,           *)
(* cmems-nrt, uhslc and gtsm3-era5-cds always, for psmsl-gnssir only when  *)
(* both time arguments were passed, and for ssc and rwsddl never (a call   *)
(* with both time arguments ends in KeyError for these two).               *)
C6_Amended ==
    /\ (pc = "done" /\ source \in C1_Nine) =>
          /\ IdCols \subseteq columns
          /\ C6_RowsHaveColumns
          /\ C6_HasTimes <=>
                \/ source \in {"gesla3", "ioc", "cmems", "cmems-nrt", "uhslc",
                              "gtsm3-era5-cds"}
                \/ (source = "psmsl-gnssir" /\ time_min # None /\ time_max # None)
    /\ (source \in {"ssc", "rwsddl"} /\ time_min # None /\ time_max # None) =>
          pc # "done"
    /\ (pc = "raised" /\ raised = "KeyError") =>
          (source \in {"ssc", "rwsddl"} /\ time_min # None /\ time_max # None)

(* a psmsl-gnssir catalog returned without a temporal coverage *)
C6_Witness ==
    /\ pc = "done" /\ source = "psmsl-gnssir" /\ ssh_catalog_gpd # <<>>
    /\ ~C6_HasTimes /\ time_min = None /\ time_max # None

C8_BothGiven == time_min # None /\ time_max # None

C8_Overlaps(r) ==
    /\ r.time_min # NaT /\ r.time_max # NaT
    /\ r.time_min < time_max /\ r.time_max > time_min

C8_Idx(s) == [i \in DOMAIN s |-> s[i].idx]

(* C8: with both time arguments given, a run that ends normally returns    *)
(* exactly the stations of the clipped catalog whose coverage strictly     *)
(* overlaps the window, in the order of the clipped catalog; a station     *)
(* with NaT as time_min or time_max is not returned; a catalog without a   *)
(* time_min column ends the run with KeyError, except for psmsl-gnssir,    *)
(* whose time extents are fetched first, once per clipped station.         *)
C8_TimeSubset ==
    /\ (pc = "done" /\ C8_BothGiven) =>
          /\ "time_min" \in columns
          /\ C8_Idx(before_time) = C8_Idx(clipped)
          /\ source # "psmsl-gnssir" => before_time = clipped
          /\ ssh_catalog_gpd = SelectSeq(before_time, C8_Overlaps)
          /\ \A i \in DOMAIN ssh_catalog_gpd :
                /\ ssh_catalog_gpd[i].time_min # NaT
                /\ ssh_catalog_gpd[i].time_max # NaT
          /\ gettimes_calls = (IF source = "psmsl-gnssir" THEN Len(clipped) ELSE 0)
    /\ (pc = "raised" /\ raised = "KeyError") =>
          /\ C8_BothGiven
          /\ "time_min" \notin columns
          /\ source # "psmsl-gnssir"
          /\ ssh_catalog_gpd = clipped
    /\ (pc = "time" /\ C8_BothGiven /\ "time_min" \notin columns
          /\ source # "psmsl-gnssir") => ~ENABLED (ssh_catalog_subset_time /\ pc' = "done")

(* a station with coverage is returned and another one is left out, being *)
(* without a time_max or ending exactly where the window starts           *)
C8_Witness ==
    /\ pc = "done" /\ C8_BothGiven /\ ssh_catalog_gpd # <<>>
    /\ \E i \in DOMAIN before_time :
          /\ before_time[i] \notin Range(ssh_catalog_gpd)
          /\ \/ before_time[i].time_max = NaT
             \/ before_time[i].time_max = time_min

(* C9: with time_min or time_max None the run ends normally whenever the   *)
(* reader did, without KeyError, without fetching psmsl-gnssir time        *)
(* extents, and returns the clipped, index-sorted catalog unchanged.       *)
C9_OneNoneIsBothNone ==
    (time_min = None \/ time_max = None) =>
        /\ raised # "KeyError"
        /\ gettimes_calls = 0
        /\ pc = "done" =>
              /\ ssh_catalog_gpd = clipped
              /\ before_time = <<>>
              /\ \A i, j \in DOMAIN ssh_catalog_gpd :
                    i < j => ssh_catalog_gpd[i].idx < ssh_catalog_gpd[j].idx
              /\ \A i \in DOMAIN ssh_catalog_gpd :
                    /\ bbox[1] <= ssh_catalog_gpd[i].x /\ ssh_catalog_gpd[i].x <= bbox[3]
                    /\ bbox[2] <= ssh_catalog_gpd[i].y /\ ssh_catalog_gpd[i].y <= bbox[4]
        /\ pc = "time" => ENABLED (ssh_catalog_subset_time /\ pc' = "done")

(* one None among the two: an ssc catalog (no time columns) and a station *)
(* whose coverage would not overlap are returned all the same             *)
C9_Witness ==
    /\ pc = "done" /\ time_min = None /\ time_max # None
    /\ source \in {"ssc", "uhslc"}
    /\ ssh_catalog_gpd # <<>>
    /\ (source = "uhslc" => \E i \in DOMAIN ssh_catalog_gpd :
                               ssh_catalog_gpd[i].time_min = NaT)

----------------------------------------------------------------------------
(* Properties of ssc_add_linked_stations *)

(* the ids an SSC row lists for one of the two catalogs *)
C7_Listed(row, name) == IF name = "IOC" THEN row.ioc ELSE row.uhslc

C7_Catalog(name) == IF name = "IOC" THEN linked_dict.ioc ELSE linked_dict.uhslc

C7_Links(row) == IF "dist_dict" \in DOMAIN row THEN DOMAIN row.dist_dict ELSE {}

(* C7 as stated: an SSC station is linked through the ids it shares with a *)
(* catalog or, when it shares none, to the station of that catalog at the  *)
(* smallest distance.                                                      *)
C7_Original ==
    (op = "ssc_add_linked_stations" /\ pc = "done") =>
        \A i \in DOMAIN ssc_catalog_gpd : \A name \in {"IOC", "UHSLC"} :
            LET row == ssc_catalog_gpd[i]
                cat == C7_Catalog(name)
            IN (C7_Listed(row, name) = {} /\ cat # <<>>) =>
                  \E key \in C7_Links(row) :
                      /\ key[1] = name
                      /\ \A j \in DOMAIN cat :
                            row.dist_dict[key][3] <= dist2(row.x, row.y, cat[j].x, cat[j].y)

(* C7, amended: every SSC row the loop has done is linked to exactly the   *)
(* stations whose ids it lists (in lowercase), each entry holding the      *)
(* coordinates of the catalog station with that id and its distance; a row *)
(* that lists no id is linked to nothing.                                  *)
C7_LinkedByIdOnly ==
    op = "ssc_add_linked_stations" =>
        \A i \in 1..irow :
            LET row == ssc_catalog_gpd[i]
            IN /\ C7_Links(row) =
                     {<<"IOC", Lower(id)>> : id \in row.ioc}
                        \cup {<<"UHSLC", Lower(id)>> : id \in row.uhslc}
               /\ \A key \in C7_Links(row) :
                     \E j \in DOMAIN C7_Catalog(key[1]) :
                         LET st == C7_Catalog(key[1])[j]
                         IN /\ st.Code = key[2]
                            /\ row.dist_dict[key] =
                                  <<st.x, st.y, dist2(row.x, row.y, st.x, st.y)>>

(* a finished run in which a row is linked by id to an IOC station while   *)
(* another IOC station lies strictly nearer, and a row without ids stays   *)
(* unlinked although both catalogs have stations                           *)
C7_Witness ==
    /\ op = "ssc_add_linked_stations" /\ pc = "done"
    /\ \E i \in DOMAIN ssc_catalog_gpd :
          LET row == ssc_catalog_gpd[i]
          IN \E key \in C7_Links(row) :
                /\ key[1] = "IOC"
                /\ \E j \in DOMAIN linked_dict.ioc :
                      dist2(row.x, row.y, linked_dict.ioc[j].x, linked_dict.ioc[j].y)
                          < row.dist_dict[key][3]
    /\ \E i \in DOMAIN ssc_catalog_gpd :
          /\ ssc_catalog_gpd[i].ioc = {} /\ ssc_catalog_gpd[i].uhslc = {}
          /\ "dist_dict" \notin DOMAIN ssc_catalog_gpd[i]
    /\ linked_dict.ioc # <<>> /\ linked_dict.uhslc # <<>>

----------------------------------------------------------------------------
(* Properties of ssh_retrieve_data *)

C2_Sources == {ssh_catalog_gpd[i].source : i \in DOMAIN ssh_catalog_gpd}

C2_NoSideEffect ==
    /\ ~dir_output.exists
    /\ dir_output.files = {}
    /\ written = <<>>
    /\ adapter_calls = <<>>

(* C2: once the checks are over, an empty catalog has raised ValueError, a  *)
(* catalog of several sources an exception, a catalog of one source without *)
(* an adapter ValueError, and in each case the output directory does not    *)
(* exist, no adapter was called and no file was written.                    *)
C2_RejectsBeforeSideEffects ==
    (op = "ssh_retrieve_data" /\ pc # "check") =>
        /\ ssh_catalog_gpd = <<>> =>
              (pc = "raised" /\ raised = "ValueError" /\ C2_NoSideEffect)
        /\ Cardinality(C2_Sources) > 1 =>
              (pc = "raised" /\ raised = "Exception" /\ C2_NoSideEffect)
        /\ (Cardinality(C2_Sources) = 1 /\ C2_Sources \cap RetrieveSources = {}) =>
              (pc = "raised" /\ raised = "ValueError" /\ C2_NoSideEffect)

(* a catalog of the two sources 'ssc' and 'uhslc' was rejected *)
C2_Witness ==
    /\ op = "ssh_retrieve_data" /\ pc = "raised" /\ raised = "Exception"
    /\ C2_Sources = {"ssc", "uhslc"}
    /\ ~dir_output.exists /\ adapter_calls = <<>>

C3_Returned == op = "ssh_retrieve_data" /\ ds.kind = "ds"

C3_Standard(d) ==
    /\ "time" \in d.dims
    /\ "waterlevel" \in d.data_vars
    /\ d.units = "m"

C4_Original ==
    C3_Returned =>
        /\ source = "gesla3" =>
              \A k \in DOMAIN provided.rows : provided.rows[k].qc_flag # 1 =>
                  ~\E i \in DOMAIN ds.data :
                      /\ ds.data[i].time = provided.rows[k].time
                      /\ ds.data[i].waterlevel = provided.rows[k].sea_level
        /\ source \in {"cmems", "cmems-nrt"} =>
              \A k \in DOMAIN provided.data : \A l \in DOMAIN provided.data[k].SLEV :
                  provided.data[k].SLEV_QC[l] # 1 =>
                      ~\E i \in DOMAIN ds.data :
                          /\ ds.data[i].time = provided.data[k].time
                          /\ ds.data[i].waterlevel = provided.data[k].SLEV[l]
        /\ source = "rwsddl" =>
              \A k \in DOMAIN provided.data : provided.data[k].Kwaliteitswaardecode # "00" =>
                  ~\E i \in DOMAIN ds.data :
                      /\ ds.data[i].time = provided.data[k].time
                      /\ ds.data[i].waterlevel = provided.data[k].Meetwaarde \div 100

(* C4, amended: gesla3 gives the value where qc_flag is 1 and a missing     *)
(* value elsewhere; cmems and cmems-nrt give SLEV (its maximum over DEPTH)  *)
(* where SLEV_QC (its maximum over DEPTH) is 1 and a missing value          *)
(* elsewhere; rwsddl gives every measurement of the period with its quality *)
(* code in 'qc', whatever the code is; the other adapters mask nothing.     *)
C4_Amended ==
    C3_Returned =>
        /\ source = "gesla3" =>
              \A i \in DOMAIN ds.data : \E k \in DOMAIN provided.rows :
                  /\ provided.rows[k].time = ds.data[i].time
                  /\ ds.data[i].waterlevel =
                        IF provided.rows[k].qc_flag = 1 THEN provided.rows[k].sea_level ELSE NaN
        /\ source \in {"cmems", "cmems-nrt"} =>
              \A i \in DOMAIN ds.data : \E k \in DOMAIN provided.data :
                  /\ provided.data[k].time = ds.data[i].time
                  /\ ds.data[i].waterlevel =
                        IF SeqMax(provided.data[k].SLEV_QC) = 1
                        THEN SeqMax(provided.data[k].SLEV) ELSE NaN
        /\ source = "rwsddl" =>
              \A k \in DOMAIN provided.data :
                  (provided.data[k].time >= time_min /\ provided.data[k].time <= time_max) =>
                      \E i \in DOMAIN ds.data :
                          /\ ds.data[i].time = provided.data[k].time
                          /\ ds.data[i].waterlevel = provided.data[k].Meetwaarde \div 100
                          /\ ds.data[i].qc = provided.data[k].Kwaliteitswaardecode
        /\ source \in {"ioc", "uhslc", "psmsl-gnssir", "gtsm3-era5-cds"} =>
              \A i \in DOMAIN ds.data : ds.data[i].waterlevel # NaN

(* cmems returned a dataset with one value masked and one value kept *)
C4_Witness ==
    /\ C3_Returned /\ source = "cmems"
    /\ \E i, j \in DOMAIN ds.data :
          /\ ds.data[i].waterlevel = NaN
          /\ ds.data[j].waterlevel # NaN
    /\ \E k \in DOMAIN provided.data : provided.data[k].SLEV_QC # <<1>>

(* C5: every file in the output directory is named after the               *)
(* station_name_unique of a catalog row the loop has done, and its seven    *)
(* station attributes are that row's values.                                *)
C5_FilesFollowCatalogRow ==
    op = "ssh_retrieve_data" =>
        \A f \in dir_output.files :
            \E k \in 1..nrow :
                LET row == ssh_catalog_gpd[k]
                IN /\ f.name = <<row.station_name_unique, ".nc">>
                   /\ f.ds.attrs.station_name = row.station_name
                   /\ f.ds.attrs.station_id = row.station_id
                   /\ f.ds.attrs.station_name_unique = row.station_name_unique
                   /\ f.ds.attrs.longitude = row.x
                   /\ f.ds.attrs.latitude = row.y
                   /\ f.ds.attrs.country = row.country
                   /\ f.ds.attrs.source = row.source

(* a file is written from a dataset whose own source attribute was not the *)
(* source of the catalog row                                               *)
C5_Witness ==
    /\ C3_Returned /\ pc = "loop"
    /\ "source" \in DOMAIN ds.attrs /\ ds.attrs.source # source
    /\ \E f \in dir_output.files :
          /\ f.name = written[Len(written)]
          /\ f.ds.attrs.source = source
          /\ f.ds.attrs.platform_code = ds.attrs.platform_code

C17_Done(i) == op = "ssc_add_linked_stations" /\ i \in 1..irow

(* C17 as stated: every listed id is found, each listed id has its own     *)
(* dist_dict entry, dist_min and dist_max are the extremes of the recorded *)
(* distances, and a row without ids gets none of the three values.         *)
C17_Original ==
    op = "ssc_add_linked_stations" =>
        /\ raised # "KeyError"
        /\ \A i \in 1..irow :
              LET row == ssc_catalog_gpd[i]
              IN /\ Cardinality(C7_Links(row)) = Cardinality(row.ioc) + Cardinality(row.uhslc)
                 /\ (row.ioc \cup row.uhslc = {}) => ("dist_min" \notin DOMAIN row)

(* C17, amended: a row the loop has done has one dist_dict entry per       *)
(* distinct lowercase id it lists, dist_min and dist_max are the smallest  *)
(* and the largest recorded distance, and a row without ids has none of    *)
(* the three values; the run ends with KeyError, and only then, at a row   *)
(* that lists an id its catalog does not have.                             *)
C17_Amended ==
    op = "ssc_add_linked_stations" =>
        /\ \A i \in 1..irow :
              LET row == ssc_catalog_gpd[i]
                  ids == {<<"IOC", Lower(id)>> : id \in row.ioc}
                            \cup {<<"UHSLC", Lower(id)>> : id \in row.uhslc}
              IN IF ids = {}
                 THEN DOMAIN row \cap {"dist_dict", "dist_min", "dist_max"} = {}
                 ELSE /\ DOMAIN row.dist_dict = ids
                      /\ \E key \in ids : row.dist_dict[key][3] = row.dist_min
                      /\ \E key \in ids : row.dist_dict[key][3] = row.dist_max
                      /\ \A key \in ids : /\ row.dist_min <= row.dist_dict[key][3]
                                          /\ row.dist_dict[key][3] <= row.dist_max
                      /\ row.dist_min <= row.dist_max
        /\ (raised = "KeyError") <=> (pc = "raised")
        /\ pc = "raised" =>
              LET row == ssc_catalog_gpd[irow + 1]
              IN \/ \E id \in row.ioc :
                       ~\E j \in DOMAIN linked_dict.ioc : linked_dict.ioc[j].Code = Lower(id)
                 \/ \E id \in row.uhslc :
                       ~\E j \in DOMAIN linked_dict.uhslc :
                           linked_dict.uhslc[j].Code = Lower(id)

(* a finished run with a row that lists an id in capitals and has two      *)
(* entries at different distances                                          *)
C17_Witness ==
    /\ op = "ssc_add_linked_stations" /\ pc = "done"
    /\ \E i \in DOMAIN ssc_catalog_gpd :
          /\ "ABAS" \in ssc_catalog_gpd[i].ioc
          /\ "dist_dict" \in DOMAIN ssc_catalog_gpd[i]
          /\ Cardinality(DOMAIN ssc_catalog_gpd[i].dist_dict) >= 2
          /\ ssc_catalog_gpd[i].dist_min < ssc_catalog_gpd[i].dist_max

----------------------------------------------------------------------------
(* More properties of ssh_catalog_subset *)

C16_StrictlyInside(r, box) ==
    /\ box[1] < r.x /\ r.x < box[3]
    /\ box[2] < r.y /\ r.y < box[4]

C16_Rows ==
    (op = "ssh_catalog_subset" /\ pc = "done") =>
        /\ \A i \in DOMAIN ssh_catalog_gpd :
              /\ ssh_catalog_gpd[i].source = source
              /\ bbox[1] <= ssh_catalog_gpd[i].x /\ ssh_catalog_gpd[i].x <= bbox[3]
              /\ bbox[2] <= ssh_catalog_gpd[i].y /\ ssh_catalog_gpd[i].y <= bbox[4]
        /\ \A i, j \in DOMAIN ssh_catalog_gpd :
              i < j => ssh_catalog_gpd[i].idx <= ssh_catalog_gpd[j].idx

C16_SpatialStepKeeps ==
    (op = "ssh_catalog_subset" /\ pc = "clip" /\ pc' = "time") =>
        \A i \in DOMAIN ssh_catalog_gpd :
            C16_StrictlyInside(ssh_catalog_gpd[i], bbox) =>
                \E j \in DOMAIN ssh_catalog_gpd' : ssh_catalog_gpd'[j] = ssh_catalog_gpd[i]

----------------------------------------------------------------------------
(* More properties of ssh_retrieve_data *)

C14_Order ==
    op = "ssh_retrieve_data" =>
        /\ adapter_calls = [i \in 1..Len(adapter_calls) |-> ssh_catalog_gpd[i].idx]
        /\ Len(adapter_calls) =
              (IF pc = "raised" /\ dir_output.exists THEN nrow + 1 ELSE nrow)
        /\ \A k \in DOMAIN written : \E f \in dir_output.files : f.name = written[k]

C14_RowStep ==
    (op = "ssh_retrieve_data" /\ pc = "loop" /\ pc' # "done") =>
        LET row == ssh_catalog_gpd[nrow + 1]
            file_out == <<row.station_name_unique, ".nc">>
        IN /\ adapter_calls' = Append(adapter_calls, row.idx)
           /\ ds'.kind = "None" =>
                 /\ pc' = "loop" /\ nrow' = nrow + 1
                 /\ written' = written /\ dir_output' = dir_output
           /\ (ds'.kind = "ds" /\ raised' = "none") =>
                 /\ pc' = "loop" /\ nrow' = nrow + 1
                 /\ written' = Append(written, file_out)
                 /\ \E f \in dir_output'.files : f.name = file_out
           /\ raised' # "none" =>
                 /\ pc' = "raised"
                 /\ written' = written /\ dir_output' = dir_output

C14_RaisedIsFinal == op = "ssh_retrieve_data" => pc # "raised"

(* C14: the adapter is called once per row, in catalog row order; a row    *)
(* with no data is skipped without a file and the loop goes on; a row with *)
(* data has its file written in the same iteration; an exception ends the  *)
(* run and leaves the files written so far in place.                       *)
C14_RowByRow ==
    /\ [](C14_Order)
    /\ [][C14_RowStep]_vars
    /\ [][C14_RaisedIsFinal]_vars

(* a finished run of two stations: no data for the first, a file for the   *)
(* second                                                                  *)
C14_Witness ==
    /\ op = "ssh_retrieve_data" /\ pc = "done"
    /\ Len(adapter_calls) = 2
    /\ written = <<<<ssh_catalog_gpd[2].station_name_unique, ".nc">>>>
    /\ ssh_catalog_gpd[1].station_name_unique # ssh_catalog_gpd[2].station_name_unique

(* C15 as stated: after a normal end, the directory holds as many files as *)
(* there were stations with data.                                          *)
C15_OneFilePerStationWithData ==
    (op = "ssh_retrieve_data" /\ pc = "done") =>
        Cardinality(dir_output.files) = Len(written)

-----------------------------------------------------------------------------
(* Properties of uhslc_ssh_retrieve_data (SpecUhslc) *)

(* the rows the server has left for a request after the time constraints *)
C11_Rows(served) ==
    IF served.status = "200" THEN sel_time(served.data, time_min, time_max) ELSE <<>>

(* one step in which a request for a dataset is made *)
C11_RequestStep ==
    (Len(requests') = Len(requests) + 1) =>
        LET served == requests'[Len(requests')].served
            rows == C11_Rows(served)
        IN /\ SubSeq(ds_list', 1, Len(ds_list)) = ds_list
           /\ (served.status = "200" /\ rows # <<>> /\ served.units = "millimeters") =>
                 /\ Len(ds_list') = Len(ds_list) + 1
                 /\ ds_list'[Len(ds_list')] =
                        preprocess_uhslc_erddap([units |-> served.units, data |-> rows])
                 /\ raised' = "none"
           /\ (served.status = "404" \/ (served.status = "200" /\ rows = <<>>)) =>
                 /\ ds_list' = ds_list
                 /\ raised' = "none"
                 /\ pc' \in {"fast", "concat"}
           /\ (served.status \in {"503", "504"}) =>
                 /\ ds_list' = ds_list
                 /\ raised' = "HTTPError"
                 /\ pc' = "raised"
           /\ (served.status = "200" /\ rows # <<>> /\ served.units # "millimeters") =>
                 /\ ds_list' = ds_list
                 /\ raised' = "AssertionError"
                 /\ pc' = "raised"

(* C11: a request that succeeds appends exactly one preprocessed dataset   *)
(* to ds_list; an HTTPError with code=404 is swallowed and the function    *)
(* goes on; any other HTTPError (503, 504) and any other exception ends    *)
(* the call with that exception; in every error case ds_list is unchanged  *)
C11_OneDs == [][C11_RequestStep]_vars

(* the rqds request was answered 404, the fast request was then made and   *)
(* its dataset is the only one in ds_list                                  *)
C11_Witness ==
    /\ op = "uhslc_ssh_retrieve_data"
    /\ raised = "none"
    /\ Len(requests) = 2
    /\ requests[1].served.status = "404"
    /\ C11_Rows(requests[2].served) # <<>>
    /\ Len(ds_list) = 1
    /\ ds_list[1].kind = "ds"

(* the rows a dataset yielded in this call: none when it was not asked for *)
(* or was answered 404                                                     *)
C12_Yield(dataset_id) ==
    IF \E i \in DOMAIN requests : requests[i].dataset_id = dataset_id
    THEN C11_Rows(requests[CHOOSE i \in DOMAIN requests :
                               requests[i].dataset_id = dataset_id].served)
    ELSE <<>>

C12_TimesOf(rows) == {rows[i].time : i \in DOMAIN rows}

C12_LevelsAt(rows, t) == {rows[i].sea_level \div 1000 : i \in {j \in DOMAIN rows : rows[j].time = t}}

(* rqds is asked before fast, and each only when it is included *)
C12_RqdsFirst ==
    /\ \A i, j \in DOMAIN requests :
          i < j => /\ requests[i].dataset_id = "global_hourly_rqds"
                   /\ requests[j].dataset_id = "global_hourly_fast"
    /\ (pc \in {"concat", "done"}) =>
          /\ include.rqds <=> (\E i \in DOMAIN requests :
                                  requests[i].dataset_id = "global_hourly_rqds")
          /\ include.fast <=> (\E i \in DOMAIN requests :
                                  requests[i].dataset_id = "global_hourly_fast")

C12_Result ==
    (pc = "done") =>
        LET rqds == C12_Yield("global_hourly_rqds")
            fast == C12_Yield("global_hourly_fast")
        IN IF rqds = <<>> /\ fast = <<>> THEN ds = NoData
           ELSE /\ ds.kind = "ds"
                /\ \A i, j \in DOMAIN ds.data : i < j => ds.data[i].time < ds.data[j].time
                /\ C12_TimesOf(ds.data) = C12_TimesOf(rqds) \cup C12_TimesOf(fast)
                /\ \A i \in DOMAIN ds.data :
                      LET t == ds.data[i].time
                      IN IF t \in C12_TimesOf(rqds)
                         THEN ds.data[i].waterlevel \in C12_LevelsAt(rqds, t)
                         ELSE ds.data[i].waterlevel \in C12_LevelsAt(fast, t)

(* C12: uhslc_ssh_retrieve_data asks for the rqds dataset before the fast  *)
(* dataset; its result has each timestamp once, in ascending order, with   *)
(* the rqds value at every timestamp both datasets have; it returns None   *)
(* when neither dataset yields data (both disabled or both answered 404)   *)
C12_RqdsBeforeFastMerged ==
    (op = "uhslc_ssh_retrieve_data") => (C12_RqdsFirst /\ C12_Result)

(* both datasets yielded rows, they share a timestamp with different       *)
(* values, fast also has an earlier timestamp, and the call returned       *)
C12_Witness ==
    /\ op = "uhslc_ssh_retrieve_data"
    /\ pc = "done"
    /\ ds.kind = "ds"
    /\ Len(ds.data) >= 2
    /\ \E t \in C12_TimesOf(C12_Yield("global_hourly_rqds")) :
          /\ t \in C12_TimesOf(C12_Yield("global_hourly_fast"))
          /\ C12_LevelsAt(C12_Yield("global_hourly_rqds"), t)
                # C12_LevelsAt(C12_Yield("global_hourly_fast"), t)
          /\ \E u \in C12_TimesOf(C12_Yield("global_hourly_fast")) : u < t

(* both datasets were disabled, or both were answered 404: None returned *)
C12_WitnessNone ==
    /\ op = "uhslc_ssh_retrieve_data"
    /\ pc = "done"
    /\ ds = NoData
    /\ Len(requests) = 2

-----------------------------------------------------------------------------
(* Properties of gtsm3_era5_cds_ssh_retrieve_data (SpecGtsm) *)

C13_First == IF time_min = None THEN GtsmRow.time_min ELSE time_min

C13_Last == IF time_max = None THEN GtsmRow.time_max ELSE time_max

C13_Requested(period) == \E i \in DOMAIN cds_requests : cds_requests[i].period = period

C13_NoZip == \A f \in cache : f.kind # "zip"

(* the months are processed once each, from the first to the last *)
C13_Months ==
    /\ \A i \in DOMAIN isfile_calls : isfile_calls[i].period = C13_First + i - 1
    /\ Len(isfile_calls) <= (IF C13_Last >= C13_First THEN C13_Last - C13_First + 1 ELSE 0)
    /\ opened.called =>
          Len(isfile_calls) = (IF C13_Last >= C13_First THEN C13_Last - C13_First + 1 ELSE 0)

(* the zip of a request is extracted, then deleted, before the open *)
C13_Zips ==
    /\ (pc = "extractall") => tmp_zipfile(time_freq, C13_First + iperiod) \in cache
    /\ (pc = "remove") => /\ tmp_zipfile(time_freq, C13_First + iperiod) \in cache
                          /\ zipped \subseteq cache
    /\ (pc \in {"period", "done"}) => C13_NoZip
    /\ opened.called => C13_NoZip
    /\ \A i, j \in DOMAIN cds_requests :
          cds_requests[i].period = cds_requests[j].period => i = j

(* a request is issued only for the month being processed and only when   *)
(* its file is not in the cache; no file of the cache is removed but the   *)
(* zip, and the zip only after the extraction                              *)
C13_Step ==
    /\ (cds_requests' # cds_requests) =>
          /\ cds_requests' = Append(cds_requests, [period |-> C13_First + iperiod,
                                                   temporal_aggregation |-> time_freq])
          /\ filename(time_freq, C13_First + iperiod) \notin cache
    /\ \A f \in cache : f \notin cache' => (f.kind = "zip" /\ pc = "remove")

(* C13 as stated: for every month from time_min to time_max (the row's     *)
(* when None) a CDS request is issued if and only if the month's file is   *)
(* absent from the cache when the month is processed; a cached month is    *)
(* never requested again; each zip is extracted and then deleted before    *)
(* the dataset is opened                                                   *)
C13_Original ==
    (op = "gtsm3_era5_cds_ssh_retrieve_data") =>
        /\ C13_Months
        /\ C13_Zips
        /\ \A i \in DOMAIN isfile_calls :
              (~isfile_calls[i].found) <=> C13_Requested(isfile_calls[i].period)

C13_Inv ==
    (op = "gtsm3_era5_cds_ssh_retrieve_data") =>
        /\ C13_Months
        /\ C13_Zips
        /\ IF time_freq \in {"10_min", "hourly"}
           THEN \A i \in DOMAIN isfile_calls :
                   (~isfile_calls[i].found) <=> C13_Requested(isfile_calls[i].period)
           ELSE /\ cds_requests = <<>>
                /\ \A i \in DOMAIN isfile_calls :
                      (~isfile_calls[i].found) => (raised = "ValueError" /\ i = Len(isfile_calls))
                /\ (raised = "ValueError") =>
                      (isfile_calls # <<>> /\ ~isfile_calls[Len(isfile_calls)].found)

(* C13, amended: with time_freq '10_min' or 'hourly' a CDS request is      *)
(* issued for a month exactly when its file is absent from the cache when  *)
(* the month is processed; with any other time_freq no request is issued   *)
(* and the first month whose file is absent ends the call with ValueError; *)
(* no month is requested twice, no cached file is removed, and each zip is *)
(* extracted and then deleted before the dataset is opened                 *)
C13_Amended == [](C13_Inv) /\ [][C13_Step]_vars

(* time_min and time_max were None, the first month of the row's period    *)
(* was in the cache and was not requested, a later month was downloaded,   *)
(* extracted and its zip deleted, and the dataset was opened               *)
C13_Witness ==
    /\ op = "gtsm3_era5_cds_ssh_retrieve_data"
    /\ time_min = None /\ time_max = None
    /\ pc = "done"
    /\ opened.called
    /\ isfile_calls[1].found
    /\ ~C13_Requested(isfile_calls[1].period)
    /\ cds_requests # <<>>
    /\ \A i \in DOMAIN cds_requests :
          filename(time_freq, cds_requests[i].period) \in opened.files
    /\ C13_NoZip

====
